---- MODULE Spec2Model ----
(***************************************************************************)
(* Verification model of the contact-project repository:                   *)
(*   - the stealth signature codec        (src/src/signature-encoder.js)   *)
(*   - the outreach ledger / correlator   (src/src/utilities/              *)
(*                                          outreach_tracker.js)           *)
(*   - the knowledge graph store          (src/src/utilities/              *)
(*                                          knowledge_graph.js)            *)
(* Text is a sequence of one-character strings; a character outside ASCII  *)
(* is written by its code point ("U+00A6").  A contact id "contact_<n>"    *)
(* is the sequence of decimal digits that follows the prefix.              *)
(***************************************************************************)
EXTENDS Integers, Sequences, FiniteSets, TLC

VARIABLES
    \* ---- codec harness
    cpc,          \* position of the codec harness
    cId,          \* idNumber handed to generateStealthSignature
    cChunks,      \* signatureChunks used to build the signature
    cSig,         \* the signature text
    cTamper,      \* how the text was altered after it was built
    cKnown,       \* index of the contactData handed to robustSignatureDecode
    cResult,      \* outcome of decodeStealthSignature
    cMatch,       \* outcome of robustSignatureDecode
    \* ---- outreach ledger
    trackingData, \* { outreachStatus, responseMetrics, trackingCodes }
    now,          \* the wall clock read by new Date()
    lastCall,     \* the last ledger call and its outcome
    \* ---- knowledge graph
    entities,     \* this.entities, in Object.values order
    relationships,\* this.relationships
    topContacts,  \* the last getTopContacts call and its result
    files,        \* what saveToFiles last wrote: the two JSON documents
    storeCall,    \* the last call on the knowledge graph and its outcome
    storeOps,     \* number of mutating calls made on the knowledge graph
    weights,      \* the weights handed to calculateImportanceScores
    \* ---- week numbering
    weekDate,     \* the Date handed to getWeekNumber
    weekOf,       \* what getWeekNumber returned for it
    \* ---- email analyzer
    analyzer      \* the run of analyzeAllContacts: its position, workers and locals

codecVars  == <<cpc, cId, cChunks, cSig, cTamper, cKnown, cResult, cMatch>>
ledgerVars == <<trackingData, now, lastCall>>
storeVars  == <<files, storeCall, storeOps>>
graphVars  == <<entities, relationships, topContacts, storeVars, weights>>
weekVars   == <<weekDate, weekOf>>
vars       == <<codecVars, ledgerVars, graphVars, weekVars, analyzer>>

(***************************************************************************)
(* Generic helpers                                                         *)
(***************************************************************************)
RECURSIVE Pow(_, _)
Pow(b, e) == IF e = 0 THEN 1 ELSE b * Pow(b, e - 1)

Range(s) == { s[i] : i \in 1..Len(s) }

(***************************************************************************)
(* signature-encoder.js                                                    *)
(***************************************************************************)
SEPARATORS == << "|", "U+00A6", "U+01C0", "U+FF5C", "U+2503", "U+2551" >>

\* String.prototype.charAt: the character at a 0-based index, "" outside the text
charAt(text, idx) == IF idx >= 0 /\ idx < Len(text) THEN text[idx + 1] ELSE ""

\* Array.prototype.indexOf on SEPARATORS: 0-based index, -1 when absent
indexOf(sep) ==
    IF \E i \in 1..Len(SEPARATORS) : SEPARATORS[i] = sep
    THEN (CHOOSE i \in 1..Len(SEPARATORS) :
              SEPARATORS[i] = sep /\ \A j \in 1..(i - 1) : SEPARATORS[j] # sep) - 1
    ELSE -1

RECURSIVE ToDigits(_, _, _)
ToDigits(tempNumber, base, digits) ==
    IF tempNumber > 0
    THEN ToDigits(tempNumber \div base, base, <<tempNumber % base>> \o digits)
    ELSE digits

RECURSIVE PadZeros(_, _)
PadZeros(digits, length) ==
    IF Len(digits) < length THEN PadZeros(<<0>> \o digits, length) ELSE digits

\* faulty variant: digits pushed at the back (least significant first)
RECURSIVE ToDigitsPush(_, _, _)
ToDigitsPush(tempNumber, base, digits) ==
    IF tempNumber > 0
    THEN ToDigitsPush(tempNumber \div base, base, digits \o <<tempNumber % base>>)
    ELSE digits

intToBaseNArray_push(number, base, length) ==
    PadZeros(ToDigitsPush(number, base, <<>>), length)

intToBaseNArray(number, base, length) ==
    PadZeros(ToDigits(number, base, <<>>), length)

RECURSIVE Interleave(_, _, _, _)
Interleave(i, signatureChunks, encodingDigits, acc) ==
    IF i >= Len(signatureChunks) THEN acc
    ELSE LET withChunk == acc \o signatureChunks[i + 1]
         IN  Interleave(i + 1, signatureChunks, encodingDigits,
                 IF i < Len(signatureChunks) - 1
                 THEN Append(withChunk, SEPARATORS[encodingDigits[i + 1] + 1])
                 ELSE withChunk)

generateStealthSignature(idNumber, signatureChunks) ==
    LET base           == Len(SEPARATORS)
        numSeparators  == Len(signatureChunks) - 1
        encodingDigits == intToBaseNArray(idNumber, base, numSeparators)
    IN  Interleave(0, signatureChunks, encodingDigits, <<>>)

\* the 0-based offsets at which decodeStealthSignature reads a separator
RECURSIVE SeparatorIndices(_, _, _, _)
SeparatorIndices(i, expectedChunks, position, acc) ==
    IF i >= Len(expectedChunks) - 1 THEN acc
    ELSE LET at == position + Len(expectedChunks[i + 1])
         IN  SeparatorIndices(i + 1, expectedChunks, at + 1, Append(acc, at))

RECURSIVE FromDigits(_, _, _, _)
FromDigits(i, digits, base, idNumber) ==
    IF i >= Len(digits) THEN idNumber
    ELSE FromDigits(i + 1, digits, base, idNumber * base + digits[i + 1])

decodeStealthSignature(signature, expectedChunks) ==
    LET separatorIndices    == SeparatorIndices(0, expectedChunks, 0, <<>>)
        extractedSeparators == [k \in 1..Len(separatorIndices) |->
                                   charAt(signature, separatorIndices[k])]
        digits              == [k \in 1..Len(extractedSeparators) |->
                                   indexOf(extractedSeparators[k])]
    IN  FromDigits(0, digits, Len(SEPARATORS), 0)

\* "contact_<n>": the decimal digits after the prefix, as `contact_${n}` writes them
RECURSIVE ToDecimal(_)
ToDecimal(n) == IF n < 10 THEN <<n>> ELSE Append(ToDecimal(n \div 10), n % 10)

\* parseInt(contactId.replace('contact_', ''), 10)
RECURSIVE ParseDigits(_, _, _)
ParseDigits(i, digits, acc) ==
    IF i > Len(digits) THEN acc ELSE ParseDigits(i + 1, digits, acc * 10 + digits[i])

parseContactNumber(contactId) == ParseDigits(1, contactId, 0)

LarryVelez == << "L", "a", "r", "r", "y", " ", "V", "e", "l", "e", "z" >>
KogiAi     == << "k", "o", "g", "i", ".", "a", "i" >>
Phone      == << "2", "1", "2", "-", "3", "8", "0", "-", "1", "0", "1", "4" >>
Sp         == << " " >>

signatureVariations == <<
    << Sp \o LarryVelez \o Sp, Sp \o KogiAi \o Sp, Sp \o Phone \o Sp, Sp >>,
    << LarryVelez \o Sp,       Sp \o KogiAi \o Sp, Sp \o Phone \o Sp, Sp >>,
    << Sp \o LarryVelez \o Sp, KogiAi \o Sp,       Sp \o Phone \o Sp, Sp >>,
    << LarryVelez \o Sp,       KogiAi \o Sp,       Sp \o Phone \o Sp, Sp >>,
    << LarryVelez \o Sp,       Sp \o KogiAi \o Sp, Phone \o Sp,       Sp >>,
    << LarryVelez,             Sp \o KogiAi,       Sp \o Phone,       <<>> >> >>

NoMatch == [found |-> FALSE, contactId |-> <<>>]

\* for (const [contactId, contact] of Object.entries(contactData)): the index of the
\* first key whose number is decodedId, 0 when the loop ends without one
FirstContactWith(contactData, decodedId) ==
    LET hits == { j \in 1..Len(contactData) :
                     parseContactNumber(contactData[j]) = decodedId }
    IN  IF hits = {} THEN 0 ELSE CHOOSE j \in hits : \A h \in hits : j <= h

RECURSIVE TryVariations(_, _, _)
TryVariations(v, signatureText, contactData) ==
    IF v > Len(signatureVariations) THEN NoMatch
    ELSE LET decodedId == decodeStealthSignature(signatureText, signatureVariations[v])
             j         == FirstContactWith(contactData, decodedId)
         IN  IF j # 0 THEN [found |-> TRUE, contactId |-> contactData[j]]
             ELSE TryVariations(v + 1, signatureText, contactData)

robustSignatureDecode(signatureText, contactData) ==
    TryVariations(1, signatureText, contactData)

(***************************************************************************)
(* Codec harness: the inputs of the codec's pure functions                 *)
(***************************************************************************)
\* ids generated beyond the capacity 6^k of a chunk list
MaxOverflow == 6

\* literal chunks of the general round trip: empty, one letter, a chunk that
\* itself holds a separator character
ChunkTexts == { <<>>, <<"a">>, <<"|", "b">> }

SlotCounts == {1, 2, 3, 4}

ChunkLists == UNION { [1..(k + 1) -> ChunkTexts] : k \in SlotCounts }

Capacity(signatureChunks) == Pow(Len(SEPARATORS), Len(signatureChunks) - 1)

\* contactData handed to robustSignatureDecode: contact_0 .. contact_215,
\* contact_36 alone, contact_29 and contact_36
ContactDataSets == <<
    [n \in 1..216 |-> ToDecimal(n - 1)],
    << ToDecimal(36) >>,
    << ToDecimal(29), ToDecimal(36) >> >>

NoTamper == [kind |-> "none", slot |-> 0]
NoResult == [threw |-> FALSE, value |-> -1]

CodecIdle ==
    /\ cpc = "idle" /\ cId = 0 /\ cChunks = <<>> /\ cSig = <<>>
    /\ cTamper = NoTamper /\ cKnown = 1 /\ cResult = NoResult /\ cMatch = NoMatch

CodecInit ==
    /\ cpc = "start"
    /\ cChunks \in ChunkLists
    /\ cId \in 0..(Capacity(cChunks) + MaxOverflow)
    /\ cSig = <<>> /\ cTamper = NoTamper /\ cKnown = 1
    /\ cResult = NoResult /\ cMatch = NoMatch

RobustInit ==
    /\ cpc = "start"
    /\ cChunks \in Range(signatureVariations)
    /\ cId \in 0..(Capacity(cChunks) - 1)
    /\ cKnown \in 1..Len(ContactDataSets)
    /\ cSig = <<>> /\ cTamper = NoTamper
    /\ cResult = NoResult /\ cMatch = NoMatch

Encode ==
    /\ cpc = "start"
    /\ cSig' = generateStealthSignature(cId, cChunks)
    /\ cpc' = "encoded"
    /\ UNCHANGED <<cId, cChunks, cTamper, cKnown, cResult, cMatch, ledgerVars, graphVars,
                   weekVars, analyzer>>

\* a mail client replaces the separator of one slot by a character outside SEPARATORS
AlterSeparator ==
    /\ cpc = "encoded" /\ cTamper = NoTamper
    /\ \E slot \in 1..(Len(cChunks) - 1), ch \in {"x", " "} :
          LET at == SeparatorIndices(0, cChunks, 0, <<>>)[slot] + 1
          IN  /\ cSig' = [cSig EXCEPT ![at] = ch]
              /\ cTamper' = [kind |-> "separator", slot |-> slot]
    /\ UNCHANGED <<cpc, cId, cChunks, cKnown, cResult, cMatch, ledgerVars, graphVars,
                   weekVars, analyzer>>

\* the text is cut just before the separator of one slot
Truncate ==
    /\ cpc = "encoded" /\ cTamper = NoTamper
    /\ \E slot \in 1..(Len(cChunks) - 1) :
          LET at == SeparatorIndices(0, cChunks, 0, <<>>)[slot]
          IN  /\ cSig' = SubSeq(cSig, 1, at)
              /\ cTamper' = [kind |-> "truncated", slot |-> slot]
    /\ UNCHANGED <<cpc, cId, cChunks, cKnown, cResult, cMatch, ledgerVars, graphVars,
                   weekVars, analyzer>>

\* decodeStealthSignature has no throw statement; charAt and indexOf do not throw
Decode ==
    /\ cpc = "encoded"
    /\ cResult' = [threw |-> FALSE, value |-> decodeStealthSignature(cSig, cChunks)]
    /\ cpc' = "decoded"
    /\ UNCHANGED <<cId, cChunks, cSig, cTamper, cKnown, cMatch, ledgerVars, graphVars,
                   weekVars, analyzer>>

RobustDecode ==
    /\ cpc = "decoded"
    /\ cMatch' = robustSignatureDecode(cSig, ContactDataSets[cKnown])
    /\ cpc' = "matched"
    /\ UNCHANGED <<cId, cChunks, cSig, cTamper, cKnown, cResult, ledgerVars, graphVars,
                   weekVars, analyzer>>


(***************************************************************************)
(* Values                                                                  *)
(***************************************************************************)
\* null / undefined is the empty sequence, a present value v is <<v>>
Null == <<>>
Some(v) == <<v>>

Abs(n) == IF n < 0 THEN -n ELSE n

RECURSIVE Gcd(_, _)
Gcd(a, b) == IF b = 0 THEN a ELSE Gcd(b, a % b)

\* the number n / d (d > 0) of a JavaScript division, in lowest terms
Ratio(n, d) ==
    LET g == Gcd(Abs(n), d)
    IN  [num |-> n \div g, den |-> d \div g]

Zero == [num |-> 0, den |-> 1]

(***************************************************************************)
(* Dates: a Date is a number of ticks since 1970-01-01T00:00 (local time   *)
(* and UTC coincide); TicksPerDay ticks make the 1000*60*60*24 ms of a day *)
(***************************************************************************)
TicksPerDay == 1

\* Date.UTC(year, month - 1, day) / 86400000: days since 1970-01-01
DaysFromCivil(year, month, day) ==
    LET y   == IF month <= 2 THEN year - 1 ELSE year
        era == y \div 400
        yoe == y - era * 400
        mp  == IF month > 2 THEN month - 3 ELSE month + 9
        doy == (153 * mp + 2) \div 5 + day - 1
        doe == yoe * 365 + yoe \div 4 - yoe \div 100 + doy
    IN  era * 146097 + doe - 719468

\* getUTCFullYear of the date that is `days` days after 1970-01-01
FullYear(days) ==
    LET z   == days + 719468
        era == z \div 146097
        doe == z - era * 146097
        yoe == (doe - doe \div 1460 + doe \div 36524 - doe \div 146096) \div 365
        doy == doe - (365 * yoe + yoe \div 4 - yoe \div 100)
        mp  == (5 * doy + 2) \div 153
        m   == IF mp < 10 THEN mp + 3 ELSE mp - 9
    IN  yoe + era * 400 + (IF m <= 2 THEN 1 ELSE 0)

\* getUTCDay: 0 = Sunday; 1970-01-01 was a Thursday
UTCDay(days) == (days + 4) % 7

\* faulty variant: the week of the calendar year, counted from January 1
getWeekNumber_calendar(date) ==
    LET d0        == date \div TicksPerDay
        yearStart == DaysFromCivil(FullYear(d0), 1, 1)
    IN  [year |-> FullYear(d0),
         week |-> (((d0 - yearStart) + 1) + 6) \div 7]

\* the date is cut to its day (Date.UTC of its year, month, day), moved to the
\* Thursday of its week (Sunday counts as day 7), and that Thursday's year and
\* Math.ceil(((d - yearStart) / 86400000 + 1) / 7) are returned
getWeekNumber(date) ==
    LET d0        == date \div TicksPerDay
        dayNum    == IF UTCDay(d0) = 0 THEN 7 ELSE UTCDay(d0)
        d         == d0 + 4 - dayNum
        yearStart == DaysFromCivil(FullYear(d), 1, 1)
    IN  [year |-> FullYear(d),
         week |-> (((d - yearStart) + 1) + 6) \div 7]

(***************************************************************************)
(* Week harness: getWeekNumber applied to every date of a range of years   *)
(***************************************************************************)
FirstYear == 2019
LastYear  == 2026

WeekDates ==
    { day * TicksPerDay + t :
         day \in DaysFromCivil(FirstYear, 1, 1)..DaysFromCivil(LastYear, 12, 31),
         t \in 0..(TicksPerDay - 1) }

WeekIdle == weekDate = 0 /\ weekOf = Null

GetWeekNumber ==
    /\ weekOf = Null
    /\ weekOf' = Some(getWeekNumber(weekDate))
    /\ UNCHANGED <<weekDate, codecVars, ledgerVars, graphVars, analyzer>>

\* the same call a day later
NextDay ==
    /\ weekOf # Null
    /\ weekDate + TicksPerDay \in WeekDates
    /\ weekDate' = weekDate + TicksPerDay
    /\ weekOf' = Null
    /\ UNCHANGED <<codecVars, ledgerVars, graphVars, analyzer>>

NextWeek == GetWeekNumber \/ NextDay

(***************************************************************************)
(* outreach_tracker.js                                                     *)
(***************************************************************************)
DefaultChunks == signatureVariations[1]

EmptyTrackingData ==
    [outreachStatus  |-> <<>>,
     responseMetrics |-> [totalSent      |-> 0,
                          totalResponses |-> 0,
                          responseRate   |-> Zero,
                          responseTimes  |-> <<>>,
                          categoryMetrics |-> <<>>,
                          weeklyStats    |-> <<>>],
     trackingCodes   |-> <<>>]

\* obj[key] = value on an object held as a function: a new key is added
Put(obj, key, value) ==
    [k \in (DOMAIN obj) \cup {key} |-> IF k = key THEN value ELSE obj[k]]

\* an object whose key order is read (Object.entries): a sequence of [key, value];
\* assigning an existing key keeps its place, a new key goes last
IndexOfKey(entries, key) ==
    LET hits == { j \in 1..Len(entries) : entries[j].key = key }
    IN  IF hits = {} THEN 0 ELSE CHOOSE j \in hits : TRUE

PutEntry(entries, key, value) ==
    LET j == IndexOfKey(entries, key)
    IN  IF j = 0 THEN Append(entries, [key |-> key, value |-> value])
        ELSE [entries EXCEPT ![j] = [key |-> key, value |-> value]]

\* faulty variant: the spread keeps the earlier responded / responseDate
OutreachStatusEntry_keep(old, email, nowIso) ==
    [lastOutreachDate |-> nowIso,
     outreachCount    |-> (IF old = Null THEN 0 ELSE old[1].outreachCount) + 1,
     lastEmailSubject |-> email.subject,
     lastEmailTo      |-> email.to,
     responded        |-> IF old = Null THEN FALSE ELSE old[1].responded,
     responseDate     |-> IF old = Null THEN Null ELSE old[1].responseDate,
     responseTime     |-> IF old = Null THEN Null ELSE old[1].responseTime]

\* faulty variant: every call starts the count again at 1
OutreachStatusEntry_restart(old, email, nowIso) ==
    [lastOutreachDate |-> nowIso,
     outreachCount    |-> 1,
     lastEmailSubject |-> email.subject,
     lastEmailTo      |-> email.to,
     responded        |-> FALSE,
     responseDate     |-> Null,
     responseTime     |-> IF old = Null THEN Null ELSE old[1].responseTime]

\* { ...(outreachStatus[contactId] || {}), lastOutreachDate: now, ... }: responseTime
\* is the one field of the earlier record that the literal does not overwrite
OutreachStatusEntry(old, email, nowIso) ==
    [lastOutreachDate |-> nowIso,
     outreachCount    |-> (IF old = Null THEN 0 ELSE old[1].outreachCount) + 1,
     lastEmailSubject |-> email.subject,
     lastEmailTo      |-> email.to,
     responded        |-> FALSE,
     responseDate     |-> Null,
     responseTime     |-> IF old = Null THEN Null ELSE old[1].responseTime]

TrackingCodeEntry(email, nowIso) ==
    [contactId       |-> email.contactId,
     email           |-> email.to,
     outreachDate    |-> nowIso,
     signatureChunks |-> DefaultChunks]

\* faulty variant: the bucket of the week is never found
WeekIndex_none(weeklyStats, w) == 0

\* weeklyStats.findIndex / find: the first bucket of the (year, week), 0 for none
WeekIndex(weeklyStats, w) ==
    LET hits == { j \in 1..Len(weeklyStats) :
                     weeklyStats[j].year = w.year /\ weeklyStats[j].week = w.week }
    IN  IF hits = {} THEN 0 ELSE CHOOSE j \in hits : \A h \in hits : j <= h

recordOutreach(email, td, date) ==
    LET contactId == email.contactId
        old       == IF contactId \in DOMAIN td.outreachStatus
                     THEN Some(td.outreachStatus[contactId]) ELSE Null
        rm        == td.responseMetrics
        cm        == rm.categoryMetrics
        cm1       == IF email.category # "" /\ email.category \notin DOMAIN cm
                     THEN Put(cm, email.category,
                              [sent |-> 0, responses |-> 0, responseRate |-> Zero])
                     ELSE cm
        cm2       == IF email.category # ""
                     THEN [cm1 EXCEPT ![email.category].sent = @ + 1]
                     ELSE cm1
        currentWeek == getWeekNumber(date)
        w         == WeekIndex(rm.weeklyStats, currentWeek)
        ws        == IF w # 0
                     THEN [rm.weeklyStats EXCEPT ![w].sent = @ + 1]
                     ELSE Append(rm.weeklyStats,
                                 [year |-> currentWeek.year, week |-> currentWeek.week,
                                  sent |-> 1, responses |-> 0, responseRate |-> Zero])
    IN  [outreachStatus  |-> Put(td.outreachStatus, contactId,
                                 OutreachStatusEntry(old, email, date)),
         trackingCodes   |-> PutEntry(td.trackingCodes, contactId,
                                      TrackingCodeEntry(email, date)),
         responseMetrics |-> [rm EXCEPT !.totalSent = @ + 1,
                                        !.categoryMetrics = cm2,
                                        !.weeklyStats = ws]]

\* faulty variant: an unmatched signature falls back to the first tracking code
RECURSIVE MatchTrackingCode_fallback(_, _, _)
MatchTrackingCode_fallback(j, trackingCodes, signature) ==
    IF j > Len(trackingCodes)
    THEN (IF trackingCodes = <<>> THEN Null ELSE Some(trackingCodes[1].key))
    ELSE LET decodedId  == decodeStealthSignature(signature,
                               trackingCodes[j].value.signatureChunks)
             expectedId == parseContactNumber(trackingCodes[j].key)
         IN  IF decodedId = expectedId THEN Some(ToDecimal(decodedId))
             ELSE MatchTrackingCode_fallback(j + 1, trackingCodes, signature)

\* the loop over Object.entries(trackingData.trackingCodes), from entry j on:
\* `contact_${decodedId}` of the first entry whose own number is decoded, or null
RECURSIVE MatchTrackingCode(_, _, _)
MatchTrackingCode(j, trackingCodes, signature) ==
    IF j > Len(trackingCodes) THEN Null
    ELSE LET decodedId  == decodeStealthSignature(signature,
                               trackingCodes[j].value.signatureChunks)
             expectedId == parseContactNumber(trackingCodes[j].key)
         IN  IF decodedId = expectedId THEN Some(ToDecimal(decodedId))
             ELSE MatchTrackingCode(j + 1, trackingCodes, signature)

\* faulty variant: the difference is taken the wrong way round
ResponseTime_neg(responseDate, outreachDate) ==
    Ratio(outreachDate - responseDate, TicksPerDay)

\* (responseDate - outreachDate) / (1000 * 60 * 60 * 24)
ResponseTime(responseDate, outreachDate) ==
    Ratio(responseDate - outreachDate, TicksPerDay)

CouldNotDecode == "Could not decode contact ID from signature"
NoOutreachRecord == "No outreach record found for contact ID"

recordResponse(signature, responseDate, td) ==
    LET matched == MatchTrackingCode(1, td.trackingCodes, signature)
    IN  IF matched = Null
        THEN [threw |-> TRUE, error |-> CouldNotDecode,
              contactId |-> Null, trackingData |-> td]
        ELSE
        LET contactId == matched[1]
        IN  IF contactId \notin DOMAIN td.outreachStatus
            THEN [threw |-> TRUE, error |-> NoOutreachRecord,
                  contactId |-> matched, trackingData |-> td]
            ELSE
            LET outreachData == td.outreachStatus[contactId]
                responseTime == ResponseTime(responseDate, outreachData.lastOutreachDate)
                rm           == td.responseMetrics
                total        == rm.totalResponses + 1
                email        == td.trackingCodes[IndexOfKey(td.trackingCodes, contactId)].value
                cm           == rm.categoryMetrics
                hasCategory  == /\ "category" \in DOMAIN email
                                /\ email.category # ""
                                /\ email.category \in DOMAIN cm
                cm1          == IF hasCategory
                                THEN [cm EXCEPT ![email.category] =
                                        [sent         |-> @.sent,
                                         responses    |-> @.responses + 1,
                                         responseRate |-> Ratio(@.responses + 1, @.sent)]]
                                ELSE cm
                responseWeek == getWeekNumber(responseDate)
                w            == WeekIndex(rm.weeklyStats, responseWeek)
                ws           == IF w # 0
                                THEN [rm.weeklyStats EXCEPT ![w] =
                                        [year         |-> @.year,
                                         week         |-> @.week,
                                         sent         |-> @.sent,
                                         responses    |-> @.responses + 1,
                                         responseRate |-> Ratio(@.responses + 1, @.sent)]]
                                ELSE rm.weeklyStats
            IN  [threw |-> FALSE, error |-> "", contactId |-> matched,
                 trackingData |->
                    [outreachStatus  |->
                        [td.outreachStatus EXCEPT ![contactId] =
                            [@ EXCEPT !.responded    = TRUE,
                                      !.responseDate = Some(responseDate),
                                      !.responseTime = Some(responseTime)]],
                     trackingCodes   |-> td.trackingCodes,
                     responseMetrics |->
                        [totalSent       |-> rm.totalSent,
                         totalResponses  |-> total,
                         responseRate    |-> Ratio(total, rm.totalSent),
                         responseTimes   |-> Put(rm.responseTimes, contactId, responseTime),
                         categoryMetrics |-> cm1,
                         weeklyStats     |-> ws]]]

(***************************************************************************)
(* Ledger harness: the calls made on one trackingData                      *)
(***************************************************************************)
\* recordOutreach calls made in one run
MaxSent == 2
\* matched recordResponse calls made in one run
MaxResponses == 2
\* ticks the clock advances in one run
MaxTicks == 3

\* the clock starts on Sunday 2024-12-29, the last day of ISO week 2024-W52
StartDate == DaysFromCivil(2024, 12, 29) * TicksPerDay

\* contact_1, contact_36, and contact_216 (beyond the 6^3 ids of three slots)
ContactNumbers == {1, 36, 216}
\* the numbers signatures are built for: the contacts, and contact_5, which is
\* never sent anything
SignedNumbers == ContactNumbers \cup {5}

Categories == {"", "Investor"}

Email(n, category) ==
    [contactId |-> ToDecimal(n), to |-> "a@b.com",
     subject |-> "My New Contact Information", category |-> category]

\* the signature text of a reply: the one built for contact n with the default
\* chunks, as sent or with the separator of the second slot replaced by "x"
SignatureInputs ==
    [signedFor : SignedNumbers, altered : {FALSE}]
        \cup { [signedFor |-> 36, altered |-> TRUE] }

SignatureTexts ==
    [input \in SignatureInputs |->
        LET sent == generateStealthSignature(input.signedFor, DefaultChunks)
            at   == SeparatorIndices(0, DefaultChunks, 0, <<>>)[2] + 1
        IN  IF input.altered THEN [sent EXCEPT ![at] = "x"] ELSE sent]

SignatureText(input) == SignatureTexts[input]

TrackedNumbers(td) ==
    { parseContactNumber(td.trackingCodes[j].key) : j \in 1..Len(td.trackingCodes) }

NoCall ==
    [op |-> "none", contactId |-> Null, threw |-> FALSE, error |-> "",
     input |-> [signedFor |-> 0, altered |-> FALSE], category |-> ""]

LedgerIdle == trackingData = EmptyTrackingData /\ now = 0 /\ lastCall = NoCall

LedgerInit ==
    /\ trackingData = EmptyTrackingData
    /\ now = StartDate
    /\ lastCall = NoCall

Tick ==
    /\ now < StartDate + MaxTicks
    /\ now' = now + 1
    /\ UNCHANGED <<trackingData, lastCall, codecVars, weekVars, analyzer, graphVars>>

RecordOutreach ==
    /\ trackingData.responseMetrics.totalSent < MaxSent
    /\ \E n \in ContactNumbers, category \in Categories :
          /\ trackingData' = recordOutreach(Email(n, category), trackingData, now)
          /\ lastCall' = [NoCall EXCEPT !.op = "recordOutreach",
                                        !.contactId = Some(ToDecimal(n)),
                                        !.category = category]
    /\ UNCHANGED <<now, codecVars, weekVars, analyzer, graphVars>>

\* a reply is recorded when it arrives: its date is the clock's
RecordResponse ==
    /\ trackingData.responseMetrics.totalResponses < MaxResponses
    /\ \E input \in SignatureInputs :
          \E r \in {recordResponse(SignatureText(input), now, trackingData)} :
              /\ trackingData' = r.trackingData
              /\ lastCall' = [NoCall EXCEPT !.op = "recordResponse",
                                            !.contactId = r.contactId,
                                            !.threw = r.threw,
                                            !.error = r.error,
                                            !.input = input]
    /\ UNCHANGED <<now, codecVars, weekVars, analyzer, graphVars>>

NextLedger == Tick \/ RecordOutreach \/ RecordResponse

(***************************************************************************)
(* knowledge_graph.js                                                      *)
(* this.entities is held as the sequence of its values in Object.values    *)
(* order: ids are not integer-like keys, so the order is that of first     *)
(* insertion.  An observation is a record with a "type" field.             *)
(***************************************************************************)
EntityIndex(ents, id) ==
    LET hits == { j \in 1..Len(ents) : ents[j].id = id }
    IN  IF hits = {} THEN 0 ELSE CHOOSE j \in hits : TRUE

\* this.entities[entity.id] = entity
addEntity(ents, entity) ==
    LET j == EntityIndex(ents, entity.id)
    IN  IF j = 0 THEN Append(ents, entity) ELSE [ents EXCEPT ![j] = entity]

\* Object.values(this.entities).filter(entity => entity.entityType === entityType)
RECURSIVE findEntitiesByType(_, _)
findEntitiesByType(ents, entityType) ==
    IF ents = <<>> THEN <<>>
    ELSE IF Head(ents).entityType = entityType
         THEN <<Head(ents)>> \o findEntitiesByType(Tail(ents), entityType)
         ELSE findEntitiesByType(Tail(ents), entityType)

\* observations.find(obs => obs.type === type): the first one, or null
FindObservation(entity, type) ==
    LET hits == { j \in 1..Len(entity.observations) :
                     entity.observations[j].type = type }
    IN  IF hits = {} THEN Null
        ELSE Some(entity.observations[CHOOSE j \in hits : \A h \in hits : j <= h])

\* observations.find(...)?.calculatedScore || 0
SortScore(entity) ==
    LET obs == FindObservation(entity, "importance_metrics")
    IN  IF obs = Null THEN 0
        ELSE IF "calculatedScore" \in DOMAIN obs[1] THEN obs[1].calculatedScore
        ELSE 0

\* faulty variant: an element is placed before the elements that compare equal to it
RECURSIVE InsertByScore_first(_, _)
InsertByScore_first(sorted, entity) ==
    IF sorted = <<>> THEN <<entity>>
    ELSE IF SortScore(Head(sorted)) - SortScore(entity) > 0
         THEN <<Head(sorted)>> \o InsertByScore_first(Tail(sorted), entity)
         ELSE <<entity>> \o sorted

\* Array.prototype.sort with (a, b) => scoreB - scoreA is stable (ECMAScript 2019):
\* an element goes after every element the comparator does not put behind it
RECURSIVE InsertByScore(_, _)
InsertByScore(sorted, entity) ==
    IF sorted = <<>> THEN <<entity>>
    ELSE IF SortScore(Head(sorted)) - SortScore(entity) >= 0
         THEN <<Head(sorted)>> \o InsertByScore(Tail(sorted), entity)
         ELSE <<entity>> \o sorted

RECURSIVE SortByScore(_, _)
SortByScore(seq, sorted) ==
    IF seq = <<>> THEN sorted
    ELSE SortByScore(Tail(seq), InsertByScore(sorted, Head(seq)))

\* Array.prototype.slice(0, n) for n >= 0
Slice(seq, n) == SubSeq(seq, 1, IF n < Len(seq) THEN n ELSE Len(seq))

getTopContacts(ents, n) ==
    Slice(SortByScore(findEntitiesByType(ents, "Contact"), <<>>), n)

\* the outcome of a call that changes the store: what it threw, and the store after
StoreOutcome(threw, error, ents, rels) ==
    [threw |-> threw, error |-> error, entities |-> ents, relationships |-> rels]

SourceEntityDoesNotExist == "Source entity does not exist."
TargetEntityDoesNotExist == "Target entity does not exist."
EntityDoesNotExist       == "Entity does not exist."

\* faulty variant: only the source entity is verified
addRelationship_unchecked(ents, rels, fromEntityId, relationshipType, toEntityId) ==
    IF EntityIndex(ents, fromEntityId) = 0
    THEN StoreOutcome(TRUE, SourceEntityDoesNotExist, ents, rels)
    ELSE StoreOutcome(FALSE, "", ents,
                      Append(rels, [from |-> fromEntityId,
                                    relationType |-> relationshipType,
                                    to |-> toEntityId]))

\* faulty variant: a relationship to a missing target is kept before the throw
addRelationship_early(ents, rels, fromEntityId, relationshipType, toEntityId) ==
    LET pushed == Append(rels, [from |-> fromEntityId,
                                relationType |-> relationshipType,
                                to |-> toEntityId])
    IN  IF EntityIndex(ents, fromEntityId) = 0
        THEN StoreOutcome(TRUE, SourceEntityDoesNotExist, ents, rels)
        ELSE IF EntityIndex(ents, toEntityId) = 0
        THEN StoreOutcome(TRUE, TargetEntityDoesNotExist, ents, pushed)
        ELSE StoreOutcome(FALSE, "", ents, pushed)

addRelationship(ents, rels, fromEntityId, relationshipType, toEntityId) ==
    IF EntityIndex(ents, fromEntityId) = 0
    THEN StoreOutcome(TRUE, SourceEntityDoesNotExist, ents, rels)
    ELSE IF EntityIndex(ents, toEntityId) = 0
    THEN StoreOutcome(TRUE, TargetEntityDoesNotExist, ents, rels)
    ELSE StoreOutcome(FALSE, "", ents,
                      Append(rels, [from |-> fromEntityId,
                                    relationType |-> relationshipType,
                                    to |-> toEntityId]))

\* relationshipType is Null (the default) or Some(type); a type given must match
TypeMatches(rel, relationshipType) ==
    relationshipType = Null \/ rel.relationType = relationshipType[1]

RECURSIVE findOutgoingRelationships(_, _, _)
findOutgoingRelationships(rels, fromEntityId, relationshipType) ==
    IF rels = <<>> THEN <<>>
    ELSE LET rest == findOutgoingRelationships(Tail(rels), fromEntityId, relationshipType)
         IN  IF Head(rels).from = fromEntityId /\ TypeMatches(Head(rels), relationshipType)
             THEN <<Head(rels)>> \o rest ELSE rest

RECURSIVE findIncomingRelationships(_, _, _)
findIncomingRelationships(rels, toEntityId, relationshipType) ==
    IF rels = <<>> THEN <<>>
    ELSE LET rest == findIncomingRelationships(Tail(rels), toEntityId, relationshipType)
         IN  IF Head(rels).to = toEntityId /\ TypeMatches(Head(rels), relationshipType)
             THEN <<Head(rels)>> \o rest ELSE rest

\* Object.assign(target, source) and { ...target, ...source }: the fields of source
\* overwrite those of target, the other fields of target stay
ObjectAssign(target, source) ==
    [f \in DOMAIN target \cup DOMAIN source |->
        IF f \in DOMAIN source THEN source[f] ELSE target[f]]

\* index of the first observation of the type, 0 when find returns undefined
ObservationIndex(entity, type) ==
    LET hits == { k \in 1..Len(entity.observations) : entity.observations[k].type = type }
    IN  IF hits = {} THEN 0 ELSE CHOOSE k \in hits : \A h \in hits : k <= h

\* faulty variant: the observation is pushed whether or not one exists
UpsertObservation_push(entity, observationType, newData) ==
    [entity EXCEPT !.observations =
        Append(@, ObjectAssign([type |-> observationType], newData))]

\* faulty variant: the new data replaces the observation instead of merging into it
UpsertObservation_replace(entity, observationType, newData) ==
    LET k == ObservationIndex(entity, observationType)
        fresh == ObjectAssign([type |-> observationType], newData)
    IN  IF k # 0
        THEN [entity EXCEPT !.observations[k] = fresh]
        ELSE [entity EXCEPT !.observations = Append(@, fresh)]

\* the entity after the find / Object.assign / push of updateEntityObservation
UpsertObservation(entity, observationType, newData) ==
    LET k == ObservationIndex(entity, observationType)
    IN  IF k # 0
        THEN [entity EXCEPT !.observations[k] = ObjectAssign(@, newData)]
        ELSE [entity EXCEPT !.observations =
                 Append(@, ObjectAssign([type |-> observationType], newData))]

\* faulty variant: a missing entity is created instead of reported
updateEntityObservation_create(ents, rels, entityId, observationType, newData) ==
    LET j == EntityIndex(ents, entityId)
    IN  IF j = 0
        THEN StoreOutcome(TRUE, EntityDoesNotExist,
                          Append(ents, [id |-> entityId, entityType |-> "Contact",
                                        observations |-> <<>>]), rels)
        ELSE StoreOutcome(FALSE, "",
                          [ents EXCEPT ![j] = UpsertObservation(@, observationType, newData)],
                          rels)

updateEntityObservation(ents, rels, entityId, observationType, newData) ==
    LET j == EntityIndex(ents, entityId)
    IN  IF j = 0
        THEN StoreOutcome(TRUE, EntityDoesNotExist, ents, rels)
        ELSE StoreOutcome(FALSE, "",
                          [ents EXCEPT ![j] = UpsertObservation(@, observationType, newData)],
                          rels)

\* faulty variant: the store's own entities are sorted in place
getTopContactsCall_inplace(ents, rels, n) ==
    LET sortedAll == SortByScore(ents, <<>>)
    IN  [entities |-> sortedAll, relationships |-> rels,
         result |-> Slice(findEntitiesByType(sortedAll, "Contact"), n)]

\* getTopContacts as a call on the store: filter builds a new array, sort orders that
\* array in place, slice copies; this.entities and this.relationships are not assigned
getTopContactsCall(ents, rels, n) ==
    LET contacts       == findEntitiesByType(ents, "Contact")
        sortedContacts == SortByScore(contacts, <<>>)
    IN  [entities |-> ents, relationships |-> rels, result |-> Slice(sortedContacts, n)]

(***************************************************************************)
(* JSON.stringify / JSON.parse.  A JSON document is a tree: null, a number,*)
(* a string, an array of documents, or an object mapping keys to documents.*)
(* In an observation "type" is a string, "lastContacted" is null or an ISO *)
(* date string (held as Null / Some(date)), every other field is a number. *)
(***************************************************************************)
JsonNull        == [t |-> "null"]
JsonNumber(n)   == [t |-> "number", n |-> n]
JsonString(str) == [t |-> "string", s |-> str]
JsonArray(seq)  == [t |-> "array", items |-> seq]
JsonObject(map) == [t |-> "object", members |-> map]

StringifyField(field, v) ==
    IF field = "type" THEN JsonString(v)
    ELSE IF field = "lastContacted"
         THEN (IF v = Null THEN JsonNull ELSE JsonString(v[1]))
    ELSE JsonNumber(v)

ParseField(field, json) ==
    IF field = "lastContacted"
    THEN (IF json.t = "null" THEN Null ELSE Some(json.s))
    ELSE IF json.t = "string" THEN json.s
    ELSE json.n

StringifyObservation(obs) ==
    JsonObject([f \in DOMAIN obs |-> StringifyField(f, obs[f])])

ParseObservation(json) ==
    [f \in DOMAIN json.members |-> ParseField(f, json.members[f])]

StringifyEntity(entity) ==
    JsonObject([id           |-> JsonString(entity.id),
                entityType   |-> JsonString(entity.entityType),
                observations |-> JsonArray([k \in 1..Len(entity.observations) |->
                                    StringifyObservation(entity.observations[k])])])

ParseEntity(json) ==
    [id           |-> json.members.id.s,
     entityType   |-> json.members.entityType.s,
     observations |-> [k \in 1..Len(json.members.observations.items) |->
                          ParseObservation(json.members.observations.items[k])]]

StringifyRelationship(rel) ==
    JsonObject([from         |-> JsonString(rel.from),
                relationType |-> JsonString(rel.relationType),
                to           |-> JsonString(rel.to)])

ParseRelationship(json) ==
    [from         |-> json.members.from.s,
     relationType |-> json.members.relationType.s,
     to           |-> json.members.to.s]

\* the two documents written: Object.values(this.entities) and this.relationships
saveToFiles(ents, rels) ==
    [entitiesData      |-> JsonArray([j \in 1..Len(ents) |-> StringifyEntity(ents[j])]),
     relationshipsData |-> JsonArray([j \in 1..Len(rels) |-> StringifyRelationship(rels[j])])]

\* entitiesArray.forEach(entity => { this.entities[entity.id] = entity }), from {}
RECURSIVE EntitiesFromArray(_, _)
EntitiesFromArray(entitiesArray, ents) ==
    IF entitiesArray = <<>> THEN ents
    ELSE EntitiesFromArray(Tail(entitiesArray), addEntity(ents, Head(entitiesArray)))

\* faulty variant: the entities are read back without their observations
loadFromFiles_bare(written) ==
    [entities |->
        EntitiesFromArray([j \in 1..Len(written.entitiesData.items) |->
                              [ParseEntity(written.entitiesData.items[j])
                                  EXCEPT !.observations = <<>>]], <<>>),
     relationships |-> [j \in 1..Len(written.relationshipsData.items) |->
                           ParseRelationship(written.relationshipsData.items[j])]]

loadFromFiles(written) ==
    [entities |->
        EntitiesFromArray([j \in 1..Len(written.entitiesData.items) |->
                              ParseEntity(written.entitiesData.items[j])], <<>>),
     relationships |-> [j \in 1..Len(written.relationshipsData.items) |->
                           ParseRelationship(written.relationshipsData.items[j])]]

(***************************************************************************)
(* calculateImportanceScores.  A factor in [0,1] is held in millionths; a  *)
(* weight and a responseRate are held in hundredths (0.25 is 25).          *)
(***************************************************************************)
Micro == Pow(10, 6)

maxEmails   == 100
maxDays     == 365
maxMeetings == 20

DefaultWeights ==
    [frequency |-> 25, recency |-> 30, responseRate |-> 20,
     meetingFrequency |-> 15, manualPriority |-> 10]

\* Math.log(emailCount) / Math.log(maxEmails) for emailCount = 1 .. 99, in millionths
Log100Micro ==
    << 
            0, 150515, 238561, 301030, 349485, 389076, 422549, 451545, 477121,
       500000, 520696, 539591, 556972, 573064, 588046, 602060, 615224, 627636,
       639377, 650515, 661110, 671211, 680864, 690106, 698970, 707487, 715682,
       723579, 731199, 738561, 745681, 752575, 759257, 765739, 772034, 778151,
       784101, 789892, 795532, 801030, 806392, 811625, 816734, 821726, 826606,
       831379, 836049, 840621, 845098, 849485, 853785, 858002, 862138, 866197,
       870181, 874094, 877937, 881714, 885426, 889076, 892665, 896196, 899670,
       903090, 906457, 909772, 913037, 916254, 919425, 922549, 925629, 928666,
       931661, 934616, 937531, 940407, 943245, 946047, 948814, 951545, 954243,
       956907, 959539, 962140, 964709, 967249, 969760, 972241, 974695, 977121,
       979521, 981894, 984241, 986564, 988862, 991136, 993386, 995613, 997818 >>

\* faulty variant: a linear scale emailCount / maxEmails
normalizeFrequency_linear(emailCount) ==
    IF emailCount <= 0 THEN 0
    ELSE IF emailCount >= maxEmails THEN Micro
    ELSE (emailCount * Micro) \div maxEmails

normalizeFrequency(emailCount) ==
    IF emailCount <= 0 THEN 0
    ELSE IF emailCount >= maxEmails THEN Micro
    ELSE Log100Micro[emailCount]

\* faulty variant: the score grows with the days since the last contact
normalizeRecency_rising(lastContactedDate, nowDate) ==
    IF lastContactedDate = Null THEN 0
    ELSE LET ticksDiff == IF nowDate - lastContactedDate[1] > 0
                          THEN nowDate - lastContactedDate[1] ELSE 0
             span      == maxDays * TicksPerDay
         IN  IF ticksDiff >= span THEN Micro ELSE (Micro * ticksDiff) \div span

\* Math.max(0, 1 - daysDiff / maxDays) with daysDiff = Math.max(0, (now - lastDate) / day)
normalizeRecency(lastContactedDate, nowDate) ==
    IF lastContactedDate = Null THEN 0
    ELSE LET ticksDiff == IF nowDate - lastContactedDate[1] > 0
                          THEN nowDate - lastContactedDate[1] ELSE 0
             span      == maxDays * TicksPerDay
         IN  IF ticksDiff >= span THEN 0 ELSE (Micro * (span - ticksDiff)) \div span

normalizeMeetingFrequency(meetingCount) ==
    IF meetingCount <= 0 THEN 0
    ELSE IF meetingCount >= maxMeetings THEN Micro
    ELSE (meetingCount * Micro) \div maxMeetings

\* obs.field || 0
FieldOrZero(obs, field) == IF field \in DOMAIN obs THEN obs[field] ELSE 0

\* obs.lastContacted: undefined and null are both falsy
LastContacted(obs) ==
    IF "lastContacted" \in DOMAIN obs THEN obs.lastContacted ELSE Null

\* the five factors, in millionths
FactorScores(metricsObs, importanceObs, nowDate) ==
    [frequency        |-> normalizeFrequency(FieldOrZero(metricsObs, "emailCount")),
     recency          |-> normalizeRecency(LastContacted(metricsObs), nowDate),
     responseRate     |-> FieldOrZero(metricsObs, "responseRate") * (Micro \div 100),
     meetingFrequency |-> normalizeMeetingFrequency(FieldOrZero(metricsObs, "meetingCount")),
     manualPriority   |-> FieldOrZero(importanceObs, "manualPriority") * (Micro \div 10)]

\* Math.round(x): the integer nearest to x, a half rounded up; x is num / Micro
MathRound(num) == (num + Micro \div 2) \div Micro

\* Math.round(totalScore * 100), totalScore the sum of scores[factor] * weight
WeightedScore(scores, w) ==
    MathRound(  scores.frequency * w.frequency
              + scores.recency * w.recency
              + scores.responseRate * w.responseRate
              + scores.meetingFrequency * w.meetingFrequency
              + scores.manualPriority * w.manualPriority)

\* the body of contacts.forEach: a contact lacking either observation is left alone
ScoreContact(contact, w, nowDate) ==
    LET km == ObservationIndex(contact, "communication_metrics")
        ki == ObservationIndex(contact, "importance_metrics")
    IN  IF km # 0 /\ ki # 0
        THEN [contact EXCEPT !.observations[ki] =
                 ObjectAssign(@, [calculatedScore |->
                     WeightedScore(FactorScores(contact.observations[km],
                                                contact.observations[ki], nowDate), w)])]
        ELSE contact

calculateImportanceScores(ents, w, nowDate) ==
    [j \in 1..Len(ents) |->
        IF ents[j].entityType = "Contact" THEN ScoreContact(ents[j], w, nowDate)
        ELSE ents[j]]

(***************************************************************************)
(* Graph harness                                                           *)
(***************************************************************************)
\* largest n handed to getTopContacts
MaxTopN == 3

\* entity ids, listed in ascending string order
EntityIds == << "contact_1", "contact_2", "contact_3", "org_1" >>

IdRank(id) == CHOOSE j \in 1..Len(EntityIds) : EntityIds[j] = id

EntityTypeOf(id) == IF id = "org_1" THEN "Organization" ELSE "Contact"

\* the observations an added entity may carry: none, importance metrics without a
\* calculated score, importance metrics with a score
SampleObservations ==
    { <<>>,
      << [type |-> "importance_metrics", manualPriority |-> 5] >> }
    \cup { << [type |-> "importance_metrics", manualPriority |-> 5,
               calculatedScore |-> score] >> : score \in {50, 90} }

SampleEntities ==
    { [id |-> EntityIds[j], entityType |-> EntityTypeOf(EntityIds[j]),
       observations |-> obs] : j \in 1..Len(EntityIds), obs \in SampleObservations }

NoTop == [called |-> FALSE, n |-> 0, result |-> <<>>]

\* nothing written yet
NoFiles == Null

NoStoreCall == [op |-> "none", threw |-> FALSE]

\* constructor(): this.entities = {}, this.relationships = []
(***************************************************************************)
(* email_analyzer.js                                                       *)
(* A thread is its messages, oldest first as Gmail returns them (the sort  *)
(* by internalDate leaves them so); a message is [from, internalDate] with *)
(* from one of "user" (a USER_CONFIG.userEmails address), "contact" (the   *)
(* address analysed) or "other".  A rate is held in hundredths.            *)
(***************************************************************************)
RECURSIVE ContactResponseTimes(_, _)
ContactResponseTimes(messages, index) ==
    IF index > Len(messages) THEN <<>>
    ELSE (IF messages[index - 1].from = "user" /\ messages[index].from = "contact"
          THEN << messages[index].internalDate - messages[index - 1].internalDate >>
          ELSE <<>>)
         \o ContactResponseTimes(messages, index + 1)

analyzeThread(thread) ==
    LET messages == thread.messages
        n        == Len(messages)
    IN  [messageCount |-> n,
         fromUser     |-> Cardinality({ k \in 1..n : messages[k].from = "user" }),
         fromContact  |-> Cardinality({ k \in 1..n : messages[k].from = "contact" }),
         lastDate     |-> IF n > 0 THEN Some(messages[n].internalDate) ELSE Null,
         contactResponseTimes |-> ContactResponseTimes(messages, 2)]

EmptyMetrics ==
    [totalEmails |-> 0, emailsSent |-> 0, emailsReceived |-> 0,
     lastContactDate |-> Null, responseTimes |-> [fromContact |-> <<>>]]

\* the loop over the threads found for the address, from the empty metrics; a
\* failed search or fetch gives the same empty metrics
RECURSIVE analyzeContactEmails(_, _)
analyzeContactEmails(threads, metrics) ==
    IF threads = <<>> THEN metrics
    ELSE LET threadMetrics == analyzeThread(Head(threads))
             later == \/ metrics.lastContactDate = Null
                      \/ /\ threadMetrics.lastDate # Null
                         /\ threadMetrics.lastDate[1] > metrics.lastContactDate[1]
         IN  analyzeContactEmails(Tail(threads),
                [totalEmails    |-> metrics.totalEmails + threadMetrics.messageCount,
                 emailsSent     |-> metrics.emailsSent + threadMetrics.fromUser,
                 emailsReceived |-> metrics.emailsReceived + threadMetrics.fromContact,
                 lastContactDate |-> IF later THEN threadMetrics.lastDate
                                     ELSE metrics.lastContactDate,
                 responseTimes  |->
                    [fromContact |-> metrics.responseTimes.fromContact
                                        \o threadMetrics.contactResponseTimes]])

\* responseTimes.fromContact.length / emailsSent, 0 when nothing was sent
calculateResponseRate(metrics) ==
    IF metrics.emailsSent = 0 THEN 0
    ELSE (100 * Len(metrics.responseTimes.fromContact)) \div metrics.emailsSent

\* faulty variant: only communication_metrics is written
updateContactWithEmailMetrics_metricsOnly(ents, rels, contactId, metrics) ==
    updateEntityObservation(ents, rels, contactId, "communication_metrics",
        [lastContacted |-> metrics.lastContactDate,
         emailCount    |-> metrics.totalEmails,
         responseRate  |-> calculateResponseRate(metrics),
         meetingCount  |-> 0]).entities

\* the two updateEntityObservation calls inside try / catch: an error of either
\* is logged and what was written before it stays.  Of communication_patterns the
\* two counters are kept; its other fields are computed from metrics alone.
updateContactWithEmailMetrics(ents, rels, contactId, metrics) ==
    LET first == updateEntityObservation(ents, rels, contactId, "communication_metrics",
                    [lastContacted |-> metrics.lastContactDate,
                     emailCount    |-> metrics.totalEmails,
                     responseRate  |-> calculateResponseRate(metrics),
                     meetingCount  |-> 0])
        second == updateEntityObservation(first.entities, rels, contactId,
                    "communication_patterns",
                    [emailsSent     |-> metrics.emailsSent,
                     emailsReceived |-> metrics.emailsReceived])
    IN  IF first.threw THEN ents ELSE second.entities

\* batch.map(async (contactEmail) => ...) up to each worker's first await, run for
\* the addresses of the batch in order: a worker whose contact is in
\* processedContacts returns at once, the others enter it and wait for their
\* analysis.  run is [workers, processedContacts].
RECURSIVE StartWorkers(_, _, _)
StartWorkers(batch, emailMapping, run) ==
    IF batch = <<>> THEN run
    ELSE LET contactEmail == Head(batch)
             contactId    == emailMapping[IndexOfKey(emailMapping, contactEmail)].value
         IN  StartWorkers(Tail(batch), emailMapping,
                IF contactId \in run.processedContacts
                THEN [run EXCEPT !.workers =
                         Put(@, contactEmail, [at |-> "returned", contactId |-> contactId])]
                ELSE [workers |-> Put(run.workers, contactEmail,
                                      [at |-> "analyzing", contactId |-> contactId]),
                      processedContacts |-> run.processedContacts \cup {contactId}])

\* the continuation of a worker after `await analyzeContactEmails`: it runs to its
\* end without another await
ResumeWorker(ents, rels, totalEmails, contactId, interactions) ==
    [totalEmails |-> totalEmails + interactions.totalEmails,
     entities    |-> IF interactions.totalEmails > 0
                     THEN updateContactWithEmailMetrics(ents, rels, contactId, interactions)
                     ELSE ents]

NotFoundInGraph == "Contact not found in knowledge graph"

\* outreach_tracker.js updateKnowledgeGraphWithResponse, up to its saveToFiles
updateKnowledgeGraphWithResponse(ents, rels, contactId, nowIso) ==
    LET j == EntityIndex(ents, contactId)
    IN  IF j = 0 THEN StoreOutcome(TRUE, NotFoundInGraph, ents, rels)
        ELSE
        LET k == ObservationIndex(ents[j], "communication_metrics")
        IN  IF k = 0 THEN StoreOutcome(FALSE, "", ents, rels)
            ELSE
            LET metricsObs    == ents[j].observations[k]
                responseCount == FieldOrZero(metricsObs, "responseCount") + 1
                counted       == ObjectAssign(metricsObs, [responseCount |-> responseCount])
                rated         == IF FieldOrZero(metricsObs, "emailCount") # 0
                                 THEN ObjectAssign(counted,
                                        [responseRate |->
                                            (100 * responseCount) \div metricsObs.emailCount])
                                 ELSE counted
                dated         == ObjectAssign(rated, [lastContacted |-> Some(nowIso)])
            IN  StoreOutcome(FALSE, "", [ents EXCEPT ![j].observations[k] = dated], rels)

NoRun == [pc |-> "idle"]

AnalyzerIdle == analyzer = NoRun

GraphIdle ==
    /\ entities = <<>> /\ relationships = <<>> /\ topContacts = NoTop
    /\ files = NoFiles /\ storeCall = NoStoreCall /\ storeOps = 0
    /\ weights = DefaultWeights

GraphInit == GraphIdle /\ CodecIdle /\ LedgerIdle /\ WeekIdle /\ AnalyzerIdle

\* topContacts holds the value a query returned to its caller: it is dropped
\* when the caller goes on to change the store
AddEntity ==
    /\ \E entity \in SampleEntities : entities' = addEntity(entities, entity)
    /\ topContacts' = NoTop
    /\ UNCHANGED <<relationships, storeVars, weights, codecVars, weekVars, analyzer, ledgerVars>>

GetTopContacts ==
    /\ \E n \in 0..MaxTopN :
          topContacts' = [called |-> TRUE, n |-> n,
                          result |-> getTopContacts(entities, n)]
    /\ UNCHANGED <<entities, relationships, storeVars, weights, codecVars, weekVars, analyzer, ledgerVars>>

NextGraph == AddEntity \/ GetTopContacts

SpecGraph == GraphInit /\ [][NextGraph]_vars

(***************************************************************************)
(* Store harness: the calls a client makes on one KnowledgeGraph           *)
(***************************************************************************)
\* most mutating calls (addEntity, updateEntityObservation, addRelationship)
MaxStoreOps == 4

\* ids handed to the store; GhostId is never added
StoreIds == { "contact_1", "org_1" }
GhostId  == "contact_9"

CommunicationMetrics ==
    [type |-> "communication_metrics", emailCount |-> 1, lastContacted |-> Null]
ImportanceMetrics ==
    [type |-> "importance_metrics", manualPriority |-> 5, calculatedScore |-> 50]

\* entities as the importers and test_setup.js build them: one observation per type
StoreEntities ==
    { [id |-> "contact_1", entityType |-> "Contact", observations |-> obs] :
          obs \in { <<>>, <<CommunicationMetrics>>,
                    <<ImportanceMetrics, CommunicationMetrics>> } }
    \cup { [id |-> "org_1", entityType |-> "Organization", observations |-> <<>>] }

\* (observationType, newData) pairs; newData never carries a "type" field
ObservationUpdates ==
    { << "communication_metrics", [emailCount |-> 2] >>,
      << "communication_metrics", [lastContacted |-> Some(StartDate), meetingCount |-> 3] >>,
      << "importance_metrics", [manualPriority |-> 7] >> }

RelationTypes == { "works_at" }

StoreAddEntity ==
    /\ storeOps < MaxStoreOps
    /\ \E entity \in StoreEntities :
          /\ entities' = addEntity(entities, entity)
          /\ storeCall' = [op |-> "addEntity", threw |-> FALSE, entity |-> entity]
    /\ storeOps' = storeOps + 1
    /\ UNCHANGED <<relationships, topContacts, files, weights, codecVars, weekVars, analyzer, ledgerVars>>

UpdateEntityObservation ==
    /\ storeOps < MaxStoreOps
    /\ \E entityId \in StoreIds \cup {GhostId}, update \in ObservationUpdates :
       \E r \in { updateEntityObservation(entities, relationships,
                                          entityId, update[1], update[2]) } :
          /\ entities' = r.entities
          /\ relationships' = r.relationships
          /\ storeCall' = [op |-> "updateEntityObservation", threw |-> r.threw,
                           error |-> r.error, entityId |-> entityId,
                           observationType |-> update[1], newData |-> update[2]]
    /\ storeOps' = storeOps + 1
    /\ UNCHANGED <<topContacts, files, weights, codecVars, weekVars, analyzer, ledgerVars>>

AddRelationship ==
    /\ storeOps < MaxStoreOps
    /\ \E fromEntityId \in StoreIds \cup {GhostId}, toEntityId \in StoreIds \cup {GhostId},
          relationshipType \in RelationTypes :
       \E r \in { addRelationship(entities, relationships,
                                  fromEntityId, relationshipType, toEntityId) } :
          /\ entities' = r.entities
          /\ relationships' = r.relationships
          /\ storeCall' = [op |-> "addRelationship", threw |-> r.threw,
                           error |-> r.error, from |-> fromEntityId,
                           relationType |-> relationshipType, to |-> toEntityId]
    /\ storeOps' = storeOps + 1
    /\ UNCHANGED <<topContacts, files, weights, codecVars, weekVars, analyzer, ledgerVars>>

FindEntitiesByType ==
    /\ \E entityType \in { "Contact", "Organization" } :
          storeCall' = [op |-> "findEntitiesByType", threw |-> FALSE,
                        result |-> findEntitiesByType(entities, entityType)]
    /\ UNCHANGED <<entities, relationships, topContacts, files, storeOps,
                   weights, codecVars, weekVars, analyzer, ledgerVars>>

FindOutgoingRelationships ==
    /\ \E fromEntityId \in StoreIds \cup {GhostId},
          relationshipType \in { Null } \cup { Some(t) : t \in RelationTypes } :
          storeCall' = [op |-> "findOutgoingRelationships", threw |-> FALSE,
                        result |-> findOutgoingRelationships(relationships, fromEntityId,
                                                             relationshipType)]
    /\ UNCHANGED <<entities, relationships, topContacts, files, storeOps,
                   weights, codecVars, weekVars, analyzer, ledgerVars>>

FindIncomingRelationships ==
    /\ \E toEntityId \in StoreIds \cup {GhostId},
          relationshipType \in { Null } \cup { Some(t) : t \in RelationTypes } :
          storeCall' = [op |-> "findIncomingRelationships", threw |-> FALSE,
                        result |-> findIncomingRelationships(relationships, toEntityId,
                                                             relationshipType)]
    /\ UNCHANGED <<entities, relationships, topContacts, files, storeOps,
                   weights, codecVars, weekVars, analyzer, ledgerVars>>

QueryTopContacts ==
    /\ \E n \in 0..MaxTopN :
       \E r \in { getTopContactsCall(entities, relationships, n) } :
          /\ entities' = r.entities
          /\ relationships' = r.relationships
          /\ storeCall' = [op |-> "getTopContacts", threw |-> FALSE, result |-> r.result]
    /\ UNCHANGED <<topContacts, files, storeOps, weights, codecVars, weekVars, analyzer, ledgerVars>>

SaveToFiles ==
    /\ files' = Some(saveToFiles(entities, relationships))
    /\ storeCall' = [op |-> "saveToFiles", threw |-> FALSE]
    /\ UNCHANGED <<entities, relationships, topContacts, storeOps, weights, codecVars, weekVars, analyzer, ledgerVars>>

\* fs.readFile rejects when nothing was written: the store is not assigned
LoadFromFiles ==
    /\ IF files = NoFiles
       THEN /\ storeCall' = [op |-> "loadFromFiles", threw |-> TRUE]
            /\ UNCHANGED <<entities, relationships>>
       ELSE \E r \in { loadFromFiles(files[1]) } :
               /\ entities' = r.entities
               /\ relationships' = r.relationships
               /\ storeCall' = [op |-> "loadFromFiles", threw |-> FALSE]
    /\ UNCHANGED <<topContacts, files, storeOps, weights, codecVars, weekVars, analyzer, ledgerVars>>

StoreInit == GraphIdle /\ CodecIdle /\ LedgerIdle /\ WeekIdle /\ AnalyzerIdle

NextStore ==
    \/ StoreAddEntity \/ UpdateEntityObservation \/ AddRelationship
    \/ FindEntitiesByType \/ FindOutgoingRelationships \/ FindIncomingRelationships
    \/ QueryTopContacts \/ SaveToFiles \/ LoadFromFiles

\* one knowledge graph, from construction
SpecStore == StoreInit /\ [][NextStore]_vars

(***************************************************************************)
(* Scoring harness: one contact whose metrics grow between two calls of    *)
(* calculateImportanceScores                                               *)
(***************************************************************************)
\* most steps of the clock between two calculations
MaxClockSteps == 1

\* new Date() at the first calculation
ScoreNow == StartDate

DaysAgo(days) == Some(ScoreNow - days * TicksPerDay)

EmailCounts     == { 1, 45, 99, 100, 150 }
ResponseRates   == { 0, 85, 100 }
MeetingCounts   == { 0, 12, 25 }
ManualPriorities == { 0, 9, 10 }
ContactedDaysAgo == { 0, 15, 400 }

\* communication_metrics as imported (lastContacted null, counts 0), as analysed,
\* and with emailCount not yet written
MetricsObservations ==
    { [type |-> "communication_metrics", lastContacted |-> lc, emailCount |-> ec,
       responseRate |-> rr, meetingCount |-> mc] :
          lc \in { Null } \cup { DaysAgo(d) : d \in { 15, 400 } },
          ec \in { 0, 45, 100 }, rr \in { 0, 85 }, mc \in { 0, 12 } }
    \cup { [type |-> "communication_metrics", lastContacted |-> DaysAgo(15),
            responseRate |-> 85] }

\* importance_metrics with the score of an earlier calculation
ImportanceObservations ==
    { [type |-> "importance_metrics", manualPriority |-> mp, calculatedScore |-> cs] :
          mp \in { 0, 9 }, cs \in { 0, 90 } }

ScoredContacts ==
    { [id |-> "contact_1", entityType |-> "Contact", observations |-> obs] :
          obs \in { <<m, i>> : m \in MetricsObservations, i \in ImportanceObservations }
                  \cup { <<i>> : i \in ImportanceObservations }
                  \cup { <<m>> : m \in { mm \in MetricsObservations :
                                            "emailCount" \notin DOMAIN mm } } }

Organization == [id |-> "org_1", entityType |-> "Organization", observations |-> <<>>]

\* caller-supplied weights: the default, equal weights, frequency and recency only
WeightChoices ==
    { DefaultWeights,
      [frequency |-> 100, recency |-> 100, responseRate |-> 100,
       meetingFrequency |-> 100, manualPriority |-> 100],
      [frequency |-> 50, recency |-> 50, responseRate |-> 0,
       meetingFrequency |-> 0, manualPriority |-> 0] }

ScoreInit ==
    /\ \E contact \in ScoredContacts : entities = << Organization, contact >>
    /\ weights \in WeightChoices
    /\ relationships = <<>> /\ topContacts = NoTop
    /\ files = NoFiles /\ storeCall = NoStoreCall /\ storeOps = 0
    /\ trackingData = EmptyTrackingData /\ now = ScoreNow /\ lastCall = NoCall
    /\ CodecIdle /\ WeekIdle /\ AnalyzerIdle

TheContact == entities[EntityIndex(entities, "contact_1")]

HasBothObservations(contact) ==
    /\ ObservationIndex(contact, "communication_metrics") # 0
    /\ ObservationIndex(contact, "importance_metrics") # 0

MetricsOf(contact) ==
    contact.observations[ObservationIndex(contact, "communication_metrics")]
ImportanceOf(contact) ==
    contact.observations[ObservationIndex(contact, "importance_metrics")]

\* storeCall keeps what was changed since the calculation before, and its score
CalculateImportanceScores ==
    /\ storeCall.op # "calculateImportanceScores"
    /\ entities' = calculateImportanceScores(entities, weights, now)
    /\ storeCall' = [op |-> "calculateImportanceScores", threw |-> FALSE,
                     changed |-> IF "changed" \in DOMAIN storeCall
                                 THEN storeCall.changed ELSE "nothing",
                     scoreBefore |-> IF "changed" \in DOMAIN storeCall
                                     THEN storeCall.scoreBefore ELSE 0]
    /\ UNCHANGED <<relationships, topContacts, files, storeOps, weights,
                   codecVars, weekVars, analyzer, ledgerVars>>

\* the (observationType, field, value) writes that raise one metric of the contact,
\* or move lastContacted back
RaisedMetrics(contact) ==
    { << "communication_metrics", "emailCount", v >> :
         v \in { e \in EmailCounts : e > FieldOrZero(MetricsOf(contact), "emailCount") } }
    \cup { << "communication_metrics", "responseRate", v >> :
         v \in { r \in ResponseRates : r > FieldOrZero(MetricsOf(contact), "responseRate") } }
    \cup { << "communication_metrics", "meetingCount", v >> :
         v \in { m \in MeetingCounts : m > FieldOrZero(MetricsOf(contact), "meetingCount") } }
    \cup { << "importance_metrics", "manualPriority", v >> :
         v \in { q \in ManualPriorities :
                    q > FieldOrZero(ImportanceOf(contact), "manualPriority") } }
    \cup { << "communication_metrics", "lastContacted", DaysAgo(d) >> :
         d \in { dd \in ContactedDaysAgo \cup { 800 } :
                    /\ LastContacted(MetricsOf(contact)) # Null
                    /\ DaysAgo(dd)[1] < LastContacted(MetricsOf(contact))[1] } }

\* after a calculation one metric of the contact is written with a larger value
RaiseMetric ==
    /\ storeCall.op = "calculateImportanceScores"
    /\ HasBothObservations(TheContact)
    /\ \E raise \in RaisedMetrics(TheContact) :
       \E r \in { updateEntityObservation(entities, relationships, "contact_1", raise[1],
                                          [f \in { raise[2] } |-> raise[3]]) } :
          /\ entities' = r.entities
          /\ relationships' = r.relationships
          /\ storeCall' = [op |-> "updateEntityObservation", threw |-> r.threw,
                           changed |-> raise[2],
                           scoreBefore |-> ImportanceOf(TheContact).calculatedScore]
    /\ storeOps' = storeOps + 1
    /\ UNCHANGED <<topContacts, files, weights, codecVars, weekVars, analyzer, ledgerVars>>

\* after a calculation thirty days pass
AdvanceClock ==
    /\ storeCall.op = "calculateImportanceScores"
    /\ HasBothObservations(TheContact)
    /\ now < ScoreNow + MaxClockSteps * 30 * TicksPerDay
    /\ now' = now + 30 * TicksPerDay
    /\ storeCall' = [op |-> "advanceClock", threw |-> FALSE,
                     changed |-> "now",
                     scoreBefore |-> ImportanceOf(TheContact).calculatedScore]
    /\ UNCHANGED <<entities, relationships, topContacts, files, storeOps, weights,
                   codecVars, weekVars, analyzer, trackingData, lastCall>>

NextScore == CalculateImportanceScores \/ RaiseMetric \/ AdvanceClock

\* scoring of one contact
SpecScore == ScoreInit /\ [][NextScore]_vars

(***************************************************************************)
(* Analyzer harness: one run of analyzeAllContacts over a loaded graph.    *)
(* JavaScript runs each piece of a worker between two awaits to its end    *)
(* before another piece starts, so a piece is one action; the pieces of    *)
(* the workers of a batch are taken in every order.                        *)
(***************************************************************************)
\* addresses per batch (batchSize, 10 in the source)
BatchSize == 2

ImportedMetrics ==
    [type |-> "communication_metrics", lastContacted |-> Null, emailCount |-> 0,
     responseRate |-> 0, meetingCount |-> 0]

\* the graph as loaded: two contacts as the importer writes them, one without
\* observations
ImportedContacts ==
    << [id |-> "contact_1", entityType |-> "Contact", observations |-> <<ImportedMetrics>>],
       [id |-> "contact_2", entityType |-> "Contact", observations |-> <<ImportedMetrics>>],
       [id |-> "contact_3", entityType |-> "Contact", observations |-> <<>>] >>

\* getEmailMapping's result in key order; contact_1 can have a second address
EmailMappings ==
    { << [key |-> "a1@x.com", value |-> "contact_1"],
         [key |-> "a2@x.com", value |-> "contact_2"],
         [key |-> "a3@x.com", value |-> "contact_1"],
         [key |-> "a4@x.com", value |-> "contact_3"] >>,
      << [key |-> "a1@x.com", value |-> "contact_1"],
         [key |-> "a2@x.com", value |-> "contact_2"],
         [key |-> "a4@x.com", value |-> "contact_3"] >> }

Message(from, daysAgo) ==
    [from |-> from, internalDate |-> StartDate - daysAgo * TicksPerDay]

\* what Gmail holds for an address: nothing (or a failed search), a mail answered,
\* a mail received, two threads with an unanswered second mail
Mailboxes ==
    { <<>>,
      << [messages |-> << Message("user", 3), Message("contact", 2) >>] >>,
      << [messages |-> << Message("contact", 1) >>] >>,
      << [messages |-> << Message("user", 9), Message("user", 8),
                          Message("contact", 7) >>],
         [messages |-> << Message("other", 5) >>] >> }

AnalyzerStart(emailMapping) ==
    [pc |-> "start", emailMapping |-> emailMapping, i |-> 0, workers |-> <<>>,
     processedContacts |-> {}, totalEmails |-> 0, analysed |-> <<>>]

AnalyzerInit ==
    /\ \E emailMapping \in EmailMappings : analyzer = AnalyzerStart(emailMapping)
    /\ entities = ImportedContacts
    /\ relationships = <<>> /\ topContacts = NoTop
    /\ files = NoFiles /\ storeCall = NoStoreCall /\ storeOps = 0
    /\ weights = DefaultWeights
    /\ trackingData = EmptyTrackingData /\ now = StartDate /\ lastCall = NoCall
    /\ CodecIdle /\ WeekIdle

\* Promise.all(batchPromises) has resolved: no worker of the batch is waiting
BatchResolved ==
    /\ analyzer.pc \in {"start", "batch"}
    /\ \A contactEmail \in DOMAIN analyzer.workers :
          analyzer.workers[contactEmail].at # "analyzing"

NextIndex == IF analyzer.pc = "start" THEN 0 ELSE analyzer.i + BatchSize

\* the for loop takes the next batch and calls its workers
NextBatch ==
    /\ BatchResolved
    /\ NextIndex < Len(analyzer.emailMapping)
    /\ LET contactEmails == [k \in 1..Len(analyzer.emailMapping) |->
                                analyzer.emailMapping[k].key]
           last  == IF NextIndex + BatchSize < Len(contactEmails)
                    THEN NextIndex + BatchSize ELSE Len(contactEmails)
           batch == SubSeq(contactEmails, NextIndex + 1, last)
           run   == StartWorkers(batch, analyzer.emailMapping,
                                 [workers |-> <<>>,
                                  processedContacts |-> analyzer.processedContacts])
       IN  analyzer' = [analyzer EXCEPT !.pc = "batch", !.i = NextIndex,
                                        !.workers = run.workers,
                                        !.processedContacts = run.processedContacts]
    /\ UNCHANGED <<entities, relationships, topContacts, storeVars, weights,
                   codecVars, ledgerVars, weekVars>>

\* a worker's analysis has come back; analysed keeps what it returned
WorkerResumes ==
    /\ analyzer.pc = "batch"
    /\ \E contactEmail \in DOMAIN analyzer.workers, threads \in Mailboxes :
          /\ analyzer.workers[contactEmail].at = "analyzing"
          /\ LET contactId    == analyzer.workers[contactEmail].contactId
                 interactions == analyzeContactEmails(threads, EmptyMetrics)
                 r == ResumeWorker(entities, relationships, analyzer.totalEmails,
                                   contactId, interactions)
             IN  /\ entities' = r.entities
                 /\ analyzer' = [analyzer EXCEPT
                                    !.totalEmails = r.totalEmails,
                                    !.workers[contactEmail].at = "returned",
                                    !.analysed = Put(@, contactId, interactions)]
    /\ UNCHANGED <<relationships, topContacts, storeVars, weights,
                   codecVars, ledgerVars, weekVars>>

\* after the last batch: await graph.saveToFiles()
SaveGraph ==
    /\ BatchResolved
    /\ NextIndex >= Len(analyzer.emailMapping)
    /\ files' = Some(saveToFiles(entities, relationships))
    /\ storeCall' = [op |-> "saveToFiles", threw |-> FALSE]
    /\ analyzer' = [analyzer EXCEPT !.pc = "done", !.i = NextIndex]
    /\ UNCHANGED <<entities, relationships, topContacts, storeOps, weights,
                   codecVars, ledgerVars, weekVars>>

NextAnalyzer == NextBatch \/ WorkerResumes \/ SaveGraph

\* analyzeAllContacts, its workers resumed in any order
SpecAnalyzer == AnalyzerInit /\ [][NextAnalyzer]_vars

(***************************************************************************)
(* Response-rate harness: what the analyzer and the response tracker write *)
(* into communication_metrics of the same contacts                         *)
(***************************************************************************)
MaxRateOps == 3

RateInit ==
    /\ entities = ImportedContacts
    /\ relationships = <<>> /\ topContacts = NoTop
    /\ files = NoFiles /\ storeCall = NoStoreCall /\ storeOps = 0
    /\ weights = DefaultWeights
    /\ trackingData = EmptyTrackingData /\ now = StartDate /\ lastCall = NoCall
    /\ CodecIdle /\ WeekIdle /\ AnalyzerIdle

\* the analyzer's write for a contact it found mail of
UpdateContactWithEmailMetrics ==
    /\ storeOps < MaxRateOps
    /\ \E j \in 1..Len(entities), threads \in Mailboxes :
          LET interactions == analyzeContactEmails(threads, EmptyMetrics)
          IN  /\ interactions.totalEmails > 0
              /\ entities' = updateContactWithEmailMetrics(entities, relationships,
                                                           entities[j].id, interactions)
              /\ storeCall' = [op |-> "updateContactWithEmailMetrics", threw |-> FALSE,
                               entityId |-> entities[j].id]
    /\ storeOps' = storeOps + 1
    /\ UNCHANGED <<relationships, topContacts, files, weights,
                   codecVars, ledgerVars, weekVars, analyzer>>

\* a response of the contact is recorded in the graph, which is then saved
UpdateKnowledgeGraphWithResponse ==
    /\ storeOps < MaxRateOps
    /\ \E contactId \in { entities[j].id : j \in 1..Len(entities) } \cup {GhostId} :
       \E r \in { updateKnowledgeGraphWithResponse(entities, relationships,
                                                   contactId, now) } :
          /\ entities' = r.entities
          /\ files' = IF r.threw THEN files
                      ELSE Some(saveToFiles(r.entities, r.relationships))
          /\ storeCall' = [op |-> "updateKnowledgeGraphWithResponse", threw |-> r.threw,
                           entityId |-> contactId]
    /\ storeOps' = storeOps + 1
    /\ UNCHANGED <<relationships, topContacts, weights,
                   codecVars, ledgerVars, weekVars, analyzer>>

NextRate == UpdateContactWithEmailMetrics \/ UpdateKnowledgeGraphWithResponse

SpecRate == RateInit /\ [][NextRate]_vars

(***************************************************************************)
(* Specifications                                                          *)
(***************************************************************************)
\* the other components stay as constructed
CodecStart  == CodecInit /\ LedgerIdle /\ GraphIdle /\ WeekIdle /\ AnalyzerIdle
RobustStart == RobustInit /\ LedgerIdle /\ GraphIdle /\ WeekIdle /\ AnalyzerIdle
LedgerStart == LedgerInit /\ CodecIdle /\ GraphIdle /\ WeekIdle /\ AnalyzerIdle
WeekStart ==
    /\ weekDate \in WeekDates /\ weekOf = Null
    /\ CodecIdle /\ LedgerIdle /\ GraphIdle /\ AnalyzerIdle

NextCodec == Encode \/ Decode

\* the codec's round trip over general chunk lists
SpecCodec == CodecStart /\ [][NextCodec]_vars

NextRobust == Encode \/ AlterSeparator \/ Truncate \/ Decode \/ RobustDecode

\* signatures built with the chunk variants of robustSignatureDecode
SpecRobust == RobustStart /\ [][NextRobust]_vars

\* the outreach ledger, from the empty tracking data
Spec == LedgerStart /\ [][NextLedger]_vars

\* getWeekNumber over the dates of FirstYear..LastYear
SpecWeek == WeekStart /\ [][NextWeek]_vars

(***************************************************************************)
(* Claims about the codec                                                  *)
(***************************************************************************)
\* C1: for every slot count k in {1,2,3,4}, every list of k+1 chunks and every id
\* with 0 <= id < 6^k, decoding the signature generated for id with the same
\* chunks returns id
C1_RoundTrip ==
    (cpc = "decoded" /\ cId < Capacity(cChunks))
        => (~cResult.threw /\ cResult.value = cId)

\* the largest id of four slots has been encoded and decoded
C1_Witness ==
    /\ cpc = "decoded" /\ Len(cChunks) = 5
    /\ cId = Capacity(cChunks) - 1 /\ cResult.value = cId
    /\ \E i \in 1..Len(cChunks) : cChunks[i] = <<"|", "b">>

\* C2: generateStealthSignature never wraps or truncates: no signature it returns
\* decodes, with the chunks it was built from, to an id other than the one passed in
\* (an id >= 6^k is refused with an OverflowError instead)
C2_NoSilentWrap ==
    cpc = "decoded" => cResult.value = cId

\* C5: robustSignatureDecode returns no match when a separator position of the
\* signature text holds a character outside the six separators
C5_AlteredSeparatorNoMatch ==
    (cpc = "matched" /\ cTamper.kind = "separator") => ~cMatch.found

C7_DecodeError ==
    (cpc \in {"decoded", "matched"} /\ cTamper.kind # "none") => cResult.threw

(***************************************************************************)
(* Claims about the outreach ledger                                        *)
(***************************************************************************)
OutreachStatus == trackingData.outreachStatus
Metrics        == trackingData.responseMetrics

\* this step is a recordOutreach call for contact c
OutreachStepFor(c) ==
    /\ trackingData'.responseMetrics.totalSent = Metrics.totalSent + 1
    /\ lastCall'.op = "recordOutreach"
    /\ lastCall'.contactId = Some(c)

\* this step is a recordResponse call that matched
MatchedResponseStep ==
    /\ trackingData'.responseMetrics.totalResponses = Metrics.totalResponses + 1
    /\ lastCall'.op = "recordResponse"
    /\ ~lastCall'.threw

C4_SelfConsistentAttribution ==
    (lastCall.op = "recordResponse" /\ ~lastCall.input.altered) =>
        /\ lastCall.input.signedFor \in TrackedNumbers(trackingData)
              => (~lastCall.threw
                  /\ lastCall.contactId = Some(ToDecimal(lastCall.input.signedFor)))
        /\ ~lastCall.threw
              => lastCall.contactId = Some(ToDecimal(lastCall.input.signedFor))

\* C8: a matched recordResponse at time now sets responded, responseDate = now and
\* responseTime = (now - lastOutreachDate) / one day, adds one to totalResponses and
\* stores responseRate = totalResponses / totalSent; after one outreach, a response
\* three days later gives responseTime 3, totalSent 1, totalResponses 1, rate 1
C8_MatchedResponse ==
    [][MatchedResponseStep =>
          LET c      == lastCall'.contactId[1]
              before == OutreachStatus[c]
              after  == trackingData'.outreachStatus[c]
              rm     == trackingData'.responseMetrics
          IN  /\ after.responded
              /\ after.responseDate = Some(now)
              /\ after.responseTime # Null
              /\ after.responseTime[1].num * TicksPerDay
                    = (now - before.lastOutreachDate) * after.responseTime[1].den
              /\ rm.totalSent = Metrics.totalSent
              /\ rm.responseRate.num * rm.totalSent
                    = rm.totalResponses * rm.responseRate.den
              /\ (/\ Metrics.totalSent = 1 /\ Metrics.totalResponses = 0
                  /\ now = before.lastOutreachDate + 3 * TicksPerDay)
                    => /\ after.responseTime = Some([num |-> 3, den |-> 1])
                       /\ rm.totalSent = 1 /\ rm.totalResponses = 1
                       /\ rm.responseRate = [num |-> 1, den |-> 1]]_vars

\* one outreach, then its reply three days later
C8_Witness ==
    /\ lastCall.op = "recordResponse" /\ ~lastCall.threw
    /\ Metrics.totalSent = 1 /\ Metrics.totalResponses = 1
    /\ Metrics.responseRate = [num |-> 1, den |-> 1]
    /\ \E c \in DOMAIN OutreachStatus :
          /\ lastCall.contactId = Some(c)
          /\ OutreachStatus[c].responded
          /\ OutreachStatus[c].responseDate
                = Some(OutreachStatus[c].lastOutreachDate + 3 * TicksPerDay)
          /\ OutreachStatus[c].responseTime = Some([num |-> 3, den |-> 1])

\* no tracking code decodes the signature to its own contact number
NoCodeMatches(td, input) ==
    \A j \in 1..Len(td.trackingCodes) :
        decodeStealthSignature(SignatureText(input),
                               td.trackingCodes[j].value.signatureChunks)
            # parseContactNumber(td.trackingCodes[j].key)

\* C9: a recordResponse whose signature matches no tracking code throws the
\* "could not decode" error to its caller and leaves the tracking data unchanged
C9_NoMatchLeavesLedger ==
    [][(lastCall'.op = "recordResponse" /\ NoCodeMatches(trackingData, lastCall'.input))
          => /\ lastCall'.threw
             /\ lastCall'.error = CouldNotDecode
             /\ lastCall'.contactId = Null
             /\ trackingData' = trackingData]_vars

\* a reply that matches none of the tracking codes of a ledger with outreach in it
C9_Witness ==
    /\ lastCall.op = "recordResponse" /\ lastCall.threw
    /\ lastCall.error = CouldNotDecode
    /\ Len(trackingData.trackingCodes) = 2
    /\ Metrics.totalSent = 2
    /\ NoCodeMatches(trackingData, lastCall.input)

(***************************************************************************)
(* Claims about the knowledge graph                                        *)
(***************************************************************************)
TopResult == topContacts.result

OnlyContacts == \A i \in 1..Len(TopResult) : TopResult[i].entityType = "Contact"

ScoreDescending ==
    \A i, j \in 1..Len(TopResult) :
        i < j => SortScore(TopResult[i]) >= SortScore(TopResult[j])

ObservationsOfType(entity, type) ==
    { k \in 1..Len(entity.observations) : entity.observations[k].type = type }

\* this step is a call of the mutating operation op
MutatingStep(op) == storeOps' = storeOps + 1 /\ storeCall'.op = op

C12_ShallowMergeFrame ==
    [][(MutatingStep("updateEntityObservation")
        /\ EntityIndex(entities, storeCall'.entityId) # 0) =>
          LET j      == EntityIndex(entities, storeCall'.entityId)
              type   == storeCall'.observationType
              data   == storeCall'.newData
              before == entities[j]
              after  == entities'[j]
              k      == ObservationIndex(before, type)
          IN  /\ ~storeCall'.threw
              /\ relationships' = relationships
              /\ Len(entities') = Len(entities)
              /\ \A i \in 1..Len(entities) : i # j => entities'[i] = entities[i]
              /\ after.id = before.id /\ after.entityType = before.entityType
              /\ IF k # 0
                 THEN /\ Len(after.observations) = Len(before.observations)
                      /\ \A m \in 1..Len(before.observations) :
                            m # k => after.observations[m] = before.observations[m]
                      /\ DOMAIN after.observations[k]
                            = DOMAIN before.observations[k] \cup DOMAIN data
                      /\ \A f \in DOMAIN after.observations[k] :
                            after.observations[k][f]
                               = IF f \in DOMAIN data THEN data[f]
                                 ELSE before.observations[k][f]
                 ELSE /\ Len(after.observations) = Len(before.observations) + 1
                      /\ \A m \in 1..Len(before.observations) :
                            after.observations[m] = before.observations[m]
                      /\ LET added == after.observations[Len(after.observations)]
                         IN  /\ DOMAIN added = {"type"} \cup DOMAIN data
                             /\ added.type = type
                             /\ \A f \in DOMAIN data : added[f] = data[f]]_vars

\* emailCount was overwritten in a contact that has a second observation, another
\* entity and a relationship beside it; lastContacted was kept
C12_Witness ==
    /\ storeCall.op = "updateEntityObservation" /\ ~storeCall.threw
    /\ storeCall.newData = [emailCount |-> 2]
    /\ Len(entities) = 2 /\ Len(relationships) = 1
    /\ \E j \in 1..Len(entities) :
          /\ entities[j].id = storeCall.entityId
          /\ entities[j].observations =
                << ImportanceMetrics,
                   [type |-> "communication_metrics", emailCount |-> 2,
                    lastContacted |-> Null] >>

\* C13: updateEntityObservation for an id absent from the store throws "Entity ...
\* does not exist" and leaves entities and relationships unchanged
C13_AbsentEntityRejected ==
    [][(MutatingStep("updateEntityObservation")
        /\ EntityIndex(entities, storeCall'.entityId) = 0) =>
          /\ storeCall'.threw
          /\ storeCall'.error = EntityDoesNotExist
          /\ entities' = entities
          /\ relationships' = relationships]_vars

\* an update for the id that was never added, on a store that holds data
C13_Witness ==
    /\ storeCall.op = "updateEntityObservation" /\ storeCall.threw
    /\ storeCall.entityId = GhostId
    /\ Len(entities) = 2 /\ Len(relationships) = 1
    /\ \E j \in 1..Len(entities) : Len(entities[j].observations) = 2

\* C14: addRelationship throws when from or to is not the id of an entity in the
\* store and then leaves the relationship list unchanged; when both exist exactly
\* one relationship (from, type, to) is appended
C14_RelationshipEndpointsChecked ==
    [][MutatingStep("addRelationship") =>
          LET from == storeCall'.from
              to   == storeCall'.to
              rel  == [from |-> from, relationType |-> storeCall'.relationType,
                       to |-> to]
          IN  /\ entities' = entities
              /\ IF EntityIndex(entities, from) = 0 \/ EntityIndex(entities, to) = 0
                 THEN /\ storeCall'.threw
                      /\ storeCall'.error \in { SourceEntityDoesNotExist,
                                                TargetEntityDoesNotExist }
                      /\ relationships' = relationships
                 ELSE /\ ~storeCall'.threw
                      /\ relationships' = Append(relationships, rel)]_vars

\* a relationship to a missing target was refused by a store that holds one
C14_Witness ==
    /\ storeCall.op = "addRelationship" /\ storeCall.threw
    /\ storeCall.error = TargetEntityDoesNotExist
    /\ EntityIndex(entities, storeCall.from) # 0
    /\ Len(relationships) = 1

\* C15: in every reachable state both endpoints of every relationship are entities
\* of the store
C15_NoDanglingRelationship ==
    \A i \in 1..Len(relationships) :
        /\ EntityIndex(entities, relationships[i].from) # 0
        /\ EntityIndex(entities, relationships[i].to) # 0

\* relationships read back from the files, after calls with missing endpoints
C15_Witness ==
    /\ storeCall.op = "loadFromFiles" /\ ~storeCall.threw
    /\ Len(relationships) = 2
    /\ \E i \in 1..Len(relationships) : relationships[i].from # relationships[i].to

\* the same entities under the same ids, with the same observations
SameEntities(a, b) ==
    /\ { a[j].id : j \in 1..Len(a) } = { b[j].id : j \in 1..Len(b) }
    /\ Len(a) = Len(b)
    /\ \A j \in 1..Len(a) : b[EntityIndex(b, a[j].id)] = a[j]

\* the same relationships, each as many times
SameRelationships(a, b) ==
    /\ Len(a) = Len(b)
    /\ \A rel \in Range(a) \cup Range(b) :
          Cardinality({ i \in 1..Len(a) : a[i] = rel })
             = Cardinality({ i \in 1..Len(b) : b[i] = rel })

\* C16: for every reachable store, saveToFiles followed by loadFromFiles gives a
\* store with the same entities under the same ids with the same observations and
\* the same multiset of relationships; and what was last written reads back as
\* the store that was saved
C16_SaveLoadRoundTrip ==
    /\ LET loaded == loadFromFiles(saveToFiles(entities, relationships))
       IN  /\ SameEntities(loaded.entities, entities)
           /\ SameRelationships(loaded.relationships, relationships)
    /\ (storeCall.op = "saveToFiles") =>
          /\ files # NoFiles
          /\ SameEntities(loadFromFiles(files[1]).entities, entities)
          /\ SameRelationships(loadFromFiles(files[1]).relationships, relationships)

\* a store with two entities, observations holding a number, a null and a date,
\* and a relationship has been written
C16_Witness ==
    /\ storeCall.op = "saveToFiles" /\ files # NoFiles
    /\ Len(entities) = 2 /\ Len(relationships) = 1
    /\ \E j \in 1..Len(entities) :
          /\ Len(entities[j].observations) = 2
          /\ \E k \in 1..2 :
                /\ entities[j].observations[k].type = "communication_metrics"
                /\ entities[j].observations[k].lastContacted # Null
    /\ Len(files[1].entitiesData.items) = 2

\* C17: findEntitiesByType, findOutgoingRelationships, findIncomingRelationships and
\* getTopContacts leave the entities (every observation, every calculatedScore)
\* and the relationships of the store unchanged
C17_QueriesReadOnly ==
    [][storeCall'.op \in { "findEntitiesByType", "findOutgoingRelationships",
                          "findIncomingRelationships", "getTopContacts" }
          => /\ entities' = entities
             /\ relationships' = relationships
             /\ files' = files]_vars

\* getTopContacts returned the contact of a store whose first entity is not a contact
C17_Witness ==
    /\ storeCall.op = "getTopContacts"
    /\ Len(storeCall.result) = 1
    /\ SortScore(storeCall.result[1]) = 50
    /\ Len(entities) = 2 /\ entities[1].entityType = "Organization"
    /\ Len(relationships) = 1

(***************************************************************************)
(* Claims about scoring                                                    *)
(***************************************************************************)
Calculated == storeCall.op = "calculateImportanceScores"

\* C18: the score is non-decreasing in emailCount, responseRate, meetingCount and
\* manualPriority, and non-increasing in the days since lastContacted, the other
\* factors and the non-negative weights held fixed
C18_ScoreMonotone ==
    (Calculated /\ storeCall.changed # "nothing") =>
        LET score == ImportanceOf(TheContact).calculatedScore
        IN  IF storeCall.changed \in { "lastContacted", "now" }
            THEN score <= storeCall.scoreBefore
            ELSE score >= storeCall.scoreBefore

\* the score of a contact with emailCount 45 fell after thirty more days
C18_Witness ==
    /\ Calculated /\ storeCall.changed = "now"
    /\ ImportanceOf(TheContact).calculatedScore < storeCall.scoreBefore
    /\ weights = DefaultWeights
    /\ FieldOrZero(MetricsOf(TheContact), "emailCount") = 45

\* C19: after calculateImportanceScores every contact holds a freshly computed
\* calculatedScore, a missing communication_metrics or importance_metrics counting
\* as factor 0 (score 0 when all are missing), never a score of an earlier run
C19_MissingMetricsScored ==
    Calculated =>
        \A j \in 1..Len(entities) :
            entities[j].entityType = "Contact" =>
                LET km == ObservationIndex(entities[j], "communication_metrics")
                    ki == ObservationIndex(entities[j], "importance_metrics")
                    m  == IF km # 0 THEN entities[j].observations[km]
                          ELSE [type |-> "communication_metrics"]
                    i  == IF ki # 0 THEN entities[j].observations[ki]
                          ELSE [type |-> "importance_metrics"]
                IN  /\ ki # 0
                    /\ "calculatedScore" \in DOMAIN i
                    /\ i.calculatedScore
                          = WeightedScore(FactorScores(m, i, now), weights)

Scenario45 ==
    /\ Calculated /\ weights = DefaultWeights
    /\ HasBothObservations(TheContact)
    /\ FieldOrZero(MetricsOf(TheContact), "emailCount") = 45
    /\ LastContacted(MetricsOf(TheContact)) = Some(now - 15 * TicksPerDay)
    /\ FieldOrZero(MetricsOf(TheContact), "responseRate") = 85
    /\ FieldOrZero(MetricsOf(TheContact), "meetingCount") = 12
    /\ FieldOrZero(ImportanceOf(TheContact), "manualPriority") = 9

\* C20: (as stated) with the default weights, emailCount 45, lastContacted 15 days
\* ago, responseRate 0.85, meetingCount 12 and manualPriority 9 give score 83
C20_ScenarioScore83 ==
    Scenario45 => ImportanceOf(TheContact).calculatedScore = 83

\* C20: (as amended) the same contact gets round(100 * 0.8443...) = 84
C20_ScenarioScore84 ==
    Scenario45 => ImportanceOf(TheContact).calculatedScore = 84

\* the scenario contact has been scored, over a score of an earlier run
C20_Witness ==
    /\ Scenario45
    /\ storeCall.changed = "nothing"
    /\ ImportanceOf(TheContact).calculatedScore = 84

(***************************************************************************)
(* Claims about the ledger's counters                                      *)
(***************************************************************************)
RECURSIVE SumOutreachCount(_, _)
SumOutreachCount(status, cs) ==
    IF cs = {} THEN 0
    ELSE LET c == CHOOSE c \in cs : TRUE
         IN  status[c].outreachCount + SumOutreachCount(status, cs \ {c})

\* C21: a recordOutreach for a contact creates its record with outreachCount 1 or
\* adds exactly 1 to it and sets lastOutreachDate, and leaves the other contacts'
\* records as they were; no other step changes a count, so every count is at least
\* 1 and the counts add up to the number of recordOutreach calls
C21_OutreachCount ==
    [][LET before == OutreachStatus
           after  == trackingData'.outreachStatus
       IN  /\ \A c \in DOMAIN after : after[c].outreachCount >= 1
           /\ SumOutreachCount(after, DOMAIN after)
                 = trackingData'.responseMetrics.totalSent
           /\ \A n \in ContactNumbers :
                 LET c == ToDecimal(n)
                 IN  OutreachStepFor(c) =>
                        /\ DOMAIN after = DOMAIN before \cup {c}
                        /\ after[c].outreachCount
                              = IF c \in DOMAIN before
                                THEN before[c].outreachCount + 1 ELSE 1
                        /\ after[c].lastOutreachDate = now
                        /\ \A d \in DOMAIN before \ {c} : after[d] = before[d]
           /\ trackingData'.responseMetrics.totalSent = Metrics.totalSent
                 => /\ DOMAIN after = DOMAIN before
                    /\ \A c \in DOMAIN before :
                          after[c].outreachCount = before[c].outreachCount]_vars

\* a second email to a contact, on a later day, beside no other record
C21_Witness ==
    /\ lastCall.op = "recordOutreach"
    /\ \E c \in DOMAIN OutreachStatus :
          /\ lastCall.contactId = Some(c)
          /\ OutreachStatus[c].outreachCount = 2
          /\ OutreachStatus[c].lastOutreachDate = now
          /\ now > StartDate

\* the buckets of one (year, week), and the sent / responses they hold together
BucketsOf(weeklyStats, w) ==
    { j \in 1..Len(weeklyStats) :
         weeklyStats[j].year = w.year /\ weeklyStats[j].week = w.week }

RECURSIVE SumField(_, _, _)
SumField(weeklyStats, js, field) ==
    IF js = {} THEN 0
    ELSE LET j == CHOOSE j \in js : TRUE
         IN  weeklyStats[j][field] + SumField(weeklyStats, js \ {j}, field)

WeekTotal(weeklyStats, w, field) ==
    SumField(weeklyStats, BucketsOf(weeklyStats, w), field)

OneBucketPerWeek(weeklyStats) ==
    \A i, j \in 1..Len(weeklyStats) :
        (weeklyStats[i].year = weeklyStats[j].year
            /\ weeklyStats[i].week = weeklyStats[j].week) => i = j

CategorySent(cm, K) == IF K \in DOMAIN cm THEN cm[K].sent ELSE 0

\* this step is a recordOutreach call
OutreachStep == lastCall'.op = "recordOutreach" /\ trackingData' # trackingData

\* C22: every recordOutreach adds 1 to totalSent, 1 to the sent counter of the
\* email's category when it has one, and 1 to the sent counter of the bucket of the
\* current ISO week, which is created on first use; totalSent is the sum of sent
\* over the weekly buckets and no (year, week) has two buckets
C22_SentCounters ==
    [][LET rm    == Metrics
           after == trackingData'.responseMetrics
           K     == lastCall'.category
           w     == getWeekNumber(now)
       IN  /\ OutreachStep =>
                 /\ after.totalSent = rm.totalSent + 1
                 /\ K # "" => CategorySent(after.categoryMetrics, K)
                                 = CategorySent(rm.categoryMetrics, K) + 1
                 /\ \A C \in Categories \ {K} :
                       CategorySent(after.categoryMetrics, C)
                          = CategorySent(rm.categoryMetrics, C)
                 /\ WeekTotal(after.weeklyStats, w, "sent")
                       = WeekTotal(rm.weeklyStats, w, "sent") + 1
                 /\ Len(after.weeklyStats)
                       = Len(rm.weeklyStats)
                            + (IF BucketsOf(rm.weeklyStats, w) = {} THEN 1 ELSE 0)
                 /\ \A j \in 1..Len(rm.weeklyStats) :
                       j \notin BucketsOf(rm.weeklyStats, w)
                          => after.weeklyStats[j] = rm.weeklyStats[j]
           /\ SumField(after.weeklyStats, 1..Len(after.weeklyStats), "sent")
                 = after.totalSent
           /\ OneBucketPerWeek(after.weeklyStats)]_vars

\* an email of a category sent in the last week of 2024 and another email in the
\* first week of 2025: two buckets, one send each
C22_Witness ==
    /\ lastCall.op = "recordOutreach"
    /\ Metrics.totalSent = 2
    /\ Len(Metrics.weeklyStats) = 2
    /\ Metrics.weeklyStats[1].sent = 1 /\ Metrics.weeklyStats[2].sent = 1
    /\ "Investor" \in DOMAIN Metrics.categoryMetrics
    /\ Metrics.categoryMetrics["Investor"].sent = 1

CategoryResponses(cm, K) == IF K \in DOMAIN cm THEN cm[K].responses ELSE 0

\* C23: a matched recordResponse for the contact whose outreach was just recorded
\* with category K adds 1 to categoryMetrics[K].responses and stores K's rate as
\* responses / sent
C23_CategoryResponses ==
    [][(/\ MatchedResponseStep
        /\ lastCall.op = "recordOutreach"
        /\ lastCall.category # ""
        /\ lastCall'.contactId = lastCall.contactId)
          => LET K     == lastCall.category
                 cm    == Metrics.categoryMetrics
                 after == trackingData'.responseMetrics.categoryMetrics
             IN  /\ CategoryResponses(after, K) = CategoryResponses(cm, K) + 1
                 /\ after[K].responseRate.num * after[K].sent
                       = after[K].responses * after[K].responseRate.den]_vars

\* C24: a matched recordResponse adds 1 to the responses of the bucket of the
\* response date's (year, week), creating the bucket when there is none, so the
\* responses of the weekly buckets add up to totalResponses
C24_WeeklyResponses ==
    [][LET rm    == Metrics
           after == trackingData'.responseMetrics
           w     == getWeekNumber(now)
       IN  /\ MatchedResponseStep =>
                 WeekTotal(after.weeklyStats, w, "responses")
                    = WeekTotal(rm.weeklyStats, w, "responses") + 1
           /\ SumField(after.weeklyStats, 1..Len(after.weeklyStats), "responses")
                 = after.totalResponses]_vars

\* C27: every tracking code's contact number is representable by the separator
\* slots of its chunks: 0 <= number < 6^(signatureChunks.length - 1)
C27_TrackedIdsRepresentable ==
    \A j \in 1..Len(trackingData.trackingCodes) :
        LET code   == trackingData.trackingCodes[j].value
            number == parseContactNumber(code.contactId)
        IN  /\ 0 <= number
            /\ number < Capacity(code.signatureChunks)

\* C29: from the empty ledger, totalResponses never exceeds totalSent: a second
\* recordResponse with a signature already matched counts no second response
C29_ResponsesBounded ==
    Metrics.totalResponses <= Metrics.totalSent

\* the stored rate is responses / sent
RateIs(rate, responses, sent) == rate.num * sent = responses * rate.den

\* C30: whenever totalSent > 0 the stored responseRate is totalResponses /
\* totalSent, also right after a recordOutreach that follows a matched response,
\* and each weekly bucket's and category's responseRate is its responses / sent
C30_StoredRates ==
    Metrics.totalSent > 0 =>
        /\ RateIs(Metrics.responseRate, Metrics.totalResponses, Metrics.totalSent)
        /\ \A j \in 1..Len(Metrics.weeklyStats) :
              RateIs(Metrics.weeklyStats[j].responseRate,
                     Metrics.weeklyStats[j].responses, Metrics.weeklyStats[j].sent)
        /\ \A K \in DOMAIN Metrics.categoryMetrics :
              RateIs(Metrics.categoryMetrics[K].responseRate,
                     Metrics.categoryMetrics[K].responses,
                     Metrics.categoryMetrics[K].sent)

(***************************************************************************)
(* Claims about week numbering                                             *)
(***************************************************************************)
\* the day of weekDate, the Monday of its Monday..Sunday week and that week's
\* Thursday, in days since 1970-01-01 (a Thursday)
WeekDay      == weekDate \div TicksPerDay
WeekMonday   == WeekDay - ((WeekDay + 3) % 7)
WeekThursday == WeekMonday + 3

\* C25: getWeekNumber gives every date its ISO-8601 (year, week): the year is the
\* one its week's Thursday lies in and the week counts the Thursdays of that year,
\* so week 1 is the week of the first Thursday (the one holding January 4); the
\* seven days Monday..Sunday of the week get the same (year, week); 2024-12-30 and
\* 2025-01-02 both get (2025, 1)
C25_IsoWeek ==
    weekOf # Null =>
        LET r    == weekOf[1]
            jan1 == DaysFromCivil(r.year, 1, 1)
        IN  /\ r.year = FullYear(WeekThursday)
            /\ r.week = ((WeekThursday - jan1) \div 7) + 1
            /\ \A k \in 0..6 : getWeekNumber((WeekMonday + k) * TicksPerDay) = r
            /\ getWeekNumber(DaysFromCivil(FullYear(WeekDay), 1, 4) * TicksPerDay)
                  = [year |-> FullYear(WeekDay), week |-> 1]
            /\ WeekDay \in { DaysFromCivil(2024, 12, 30), DaysFromCivil(2025, 1, 2) }
                  => r = [year |-> 2025, week |-> 1]

\* Monday 2024-12-30 has been numbered: week 1 of 2025
C25_Witness ==
    /\ WeekDay = DaysFromCivil(2024, 12, 30)
    /\ weekOf = Some([year |-> 2025, week |-> 1])

(***************************************************************************)
(* Claims about the email analyzer                                         *)
(***************************************************************************)
HasObservation(contact, type) == ObservationIndex(contact, type) # 0

PatternsOf(contact) ==
    contact.observations[ObservationIndex(contact, "communication_patterns")]

\* the contact holds the whole of what its worker's analysis returned
HoldsUpdate(contact, interactions) ==
    /\ HasObservation(contact, "communication_metrics")
    /\ HasObservation(contact, "communication_patterns")
    /\ MetricsOf(contact).emailCount = interactions.totalEmails
    /\ MetricsOf(contact).lastContacted = interactions.lastContactDate
    /\ MetricsOf(contact).responseRate = calculateResponseRate(interactions)
    /\ PatternsOf(contact).emailsSent = interactions.emailsSent
    /\ PatternsOf(contact).emailsReceived = interactions.emailsReceived

RECURSIVE SumTotalEmails(_, _)
SumTotalEmails(analysed, ids) ==
    IF ids = {} THEN 0
    ELSE LET id == CHOOSE id \in ids : TRUE
         IN  analysed[id].totalEmails + SumTotalEmails(analysed, ids \ {id})

\* C26: under every order in which the workers of a batch resume, each contact's
\* update is in the store whole (communication_metrics and communication_patterns
\* of the same analysis) or not at all, a contact nothing was found for is as
\* loaded, totalEmails is the sum of what the workers returned, and the save comes
\* after every worker and writes the store with every update in it
C26_SerializedWriteBack ==
    analyzer.pc \in {"batch", "done"} =>
        /\ \A j \in 1..Len(entities) :
              LET id == entities[j].id
              IN  IF id \in DOMAIN analyzer.analysed
                     /\ analyzer.analysed[id].totalEmails > 0
                  THEN HoldsUpdate(entities[j], analyzer.analysed[id])
                  ELSE entities[j] = ImportedContacts[j]
        /\ Len(entities) = Len(ImportedContacts)
        /\ analyzer.totalEmails
              = SumTotalEmails(analyzer.analysed, DOMAIN analyzer.analysed)
        /\ files # NoFiles <=> analyzer.pc = "done"
        /\ analyzer.pc = "done" =>
              /\ files = Some(saveToFiles(entities, relationships))
              /\ DOMAIN analyzer.analysed
                    = { analyzer.emailMapping[k].value :
                           k \in 1..Len(analyzer.emailMapping) }

\* the run is over and saved; the workers of contact_2 and contact_1 of the first
\* batch both found mail, and the second address of contact_1 was skipped
C26_Witness ==
    /\ analyzer.pc = "done"
    /\ Len(analyzer.emailMapping) = 4
    /\ analyzer.analysed["contact_1"].totalEmails = 2
    /\ analyzer.analysed["contact_2"].totalEmails = 4
    /\ analyzer.analysed["contact_3"].totalEmails = 1
    /\ analyzer.totalEmails = 7
    /\ HoldsUpdate(entities[3], analyzer.analysed["contact_3"])

\* C28: communication_metrics.responseRate of every contact lies in [0, 1], after
\* the analyzer's write and after any number of updateKnowledgeGraphWithResponse
C28_ResponseRateInUnitInterval ==
    \A j \in 1..Len(entities) :
        HasObservation(entities[j], "communication_metrics") =>
            /\ FieldOrZero(MetricsOf(entities[j]), "responseRate") >= 0
            /\ FieldOrZero(MetricsOf(entities[j]), "responseRate") <= 100

====
